---- MODULE Spec2Model ----
(***************************************************************************)
(* Model of the flashcard application in src/app.js: the card collection,  *)
(* the SM-2 style schedulers (processRating, processRatingBinary), the     *)
(* due-card selection (showNextCard) and the event handlers that drive     *)
(* them.                                                                   *)
(*                                                                         *)
(* Representation.                                                         *)
(*  - Cards are JavaScript objects: `heap` maps an object reference to the *)
(*    card's fields, `cards` is the array of references and `currentCard`  *)
(*    a reference (or NULL).  An object no longer held by `cards` can      *)
(*    still be referenced by `currentCard`.                                *)
(*  - Times are epoch milliseconds, as in the code.                        *)
(*  - easeFactor is kept in hundredths (2.5 is 250).  Every constant the   *)
(*    code adds to it (0.1, 0.0, -0.14, -0.15, 0.05) and both clamps (1.3, *)
(*    2.5) are whole hundredths, so the model computes in exact hundredths *)
(*    what the code computes in IEEE doubles; the two differ by the        *)
(*    doubles' rounding error (about 1e-16), not by the branch taken or    *)
(*    the clamp applied.                                                   *)
(*  - A handler runs to completion at one reading of the clock.            *)
(***************************************************************************)
EXTENDS Integers, Sequences, FiniteSets, TLC

\* ---------------------------------------------------------------- bounds
MaxCards    == 1   \* cards createCard makes in a session
MaxDays     == 1   \* whole days the clock may advance
MaxMillis   == 1   \* milliseconds past a whole day the scheduler harness may reach
MaxSkips    == 1   \* skipOneDay invocations
MaxInterval == 20  \* largest interval a rating may produce
MaxRatings  == 2   \* rating clicks in a session
MaxSchedRatings == 3  \* ratings applied in the scheduler harness
MaxStored   == 2   \* cards of a collection found in storage by loadCards
MaxFails    == 2   \* storage writes that fail in a session
MaxPending  == 2   \* asynchronous saveCards calls in flight at a time
MaxTimers   == 2   \* replay timers pending at a time
MaxWaiting  == 1   \* AI handlers waiting for a call at a time

\* ----------------------------------------------------- program constants
millisInDay == 86400000
NULL        == 0
NoAudio     == "null"
NoId        == 0

\* The warning saveCards shows on the first failed write of a session.
StorageWarning == "Your browser is blocking local storage"

VARIABLES
    heap,            \* object reference -> card fields
    cards,           \* let cards: sequence of object references
    currentCard,     \* let currentCard: object reference or NULL
    now,             \* Date.now()
    section,         \* which of add-section / study-section is not hidden
    cardBoxHidden,   \* cardBox.classList contains 'hidden'
    noDueHidden,     \* noDueEl.classList contains 'hidden'
    revealHidden,    \* revealArea.classList contains 'hidden'
    stored,          \* localStorage[STORAGE_KEY], as the array it parses to
    warned,          \* saveCards._warned
    nextId,          \* number of the next card createCard makes
    ratings,         \* number of ratings applied so far
    streak,          \* the scheduler by itself: the successful ratings of
                     \* its card since the last failed one
    player,          \* the audio element of the card box, its onended
                     \* handler, audioLoopTimeout and the pending timers
    last,            \* the last step taken and what it acted on
    editingCardId,   \* let editingCardId: id of the card being edited, or NoId
    alerts,          \* the alert() calls of the last step, in order
    exported,        \* text of the flashcards.json last downloaded
    skipRun,         \* history: the skipOneDay calls made in a row, the
                     \* collection and the heap before them, kept by the
                     \* specifications that record it
    load,            \* a loadCards() call: what storage holds and what the
                     \* call gave its caller
    saves,           \* history: the saveCards calls, kept by the
                     \* specifications that record it
    db,              \* the IndexedDB database of the asynchronous saveCards
                     \* and the calls in flight
    form             \* the add section: its inputs, its buttons and
                     \* generatedAudioData

vars == <<heap, cards, currentCard, now, section, cardBoxHidden, noDueHidden,
          revealHidden, stored, warned, nextId, ratings, streak, player, last, editingCardId,
          alerts, exported, skipRun, load, saves, db, form>>

\* ---------------------------------------------------------------- helpers
Range(s) == {s[i] : i \in 1..Len(s)}

Max(a, b) == IF a >= b THEN a ELSE b

Min(a, b) == IF a <= b THEN a ELSE b

\* Mutant: Math.floor in place of Math.round.
MathRound_Floor(interval, ef) == (interval * ef) \div 100

\* Math.round(interval * easeFactor): the nearest integer, halves upwards.
\* ef is in hundredths.
MathRound(interval, ef) == (interval * ef + 50) \div 100

Refs == 1..(2 * MaxCards + 2)

\* Mutant: a created card counts as reviewed once and is due the next day.
NewCard_Reviewed(id, question, answer, audioData, t) ==
    [id |-> id, question |-> question, answer |-> answer,
     audioData |-> audioData, interval |-> 1, repetitions |-> 0,
     easeFactor |-> 250, nextReview |-> t + 86400000]

\* The fields of a card created by createCard at time t.
NewCard(id, question, answer, audioData, t) ==
    [id |-> id, question |-> question, answer |-> answer,
     audioData |-> audioData, interval |-> 0, repetitions |-> 0,
     easeFactor |-> 250, nextReview |-> t]

NoCard == NewCard(NoId, "", "", NoAudio, 0)

\* ------------------------------------------------------------- scheduler

\* processRating(card, quality) at Date.now() = t: the graded SM-2 update.
\* Mutant: the second successful review schedules 3 days, as the binary
\* variant does.
gradedInterval_Three(card, quality) ==
    IF quality < 3 THEN 1
    ELSE IF card.repetitions = 0 THEN 1
    ELSE IF card.repetitions = 1 THEN 3
    ELSE MathRound(card.interval, card.easeFactor)

\* The interval is set first, from the fields as they were.
gradedInterval(card, quality) ==
    IF quality < 3 THEN 1
    ELSE IF card.repetitions = 0 THEN 1
    ELSE IF card.repetitions = 1 THEN 6
    ELSE MathRound(card.interval, card.easeFactor)

\* Mutant: nextReview is computed from the interval the card had before.
processRating_StaleInterval(card, quality, t) ==
    [card EXCEPT !.interval = gradedInterval(card, quality),
                 !.repetitions = IF quality < 3 THEN 0 ELSE card.repetitions + 1,
                 !.easeFactor = IF quality < 3 THEN card.easeFactor
                                ELSE Max(130, card.easeFactor
                                      + (10 - (5 - quality) * (8 + (5 - quality) * 2))),
                 !.nextReview = t + card.interval * millisInDay]

\* Mutant: only qualities below 2 count as a failed recall.
processRating_LowThreshold(card, quality, t) ==
    LET failed == quality < 2
        interval == IF failed THEN 1
                    ELSE IF card.repetitions = 0 THEN 1
                    ELSE IF card.repetitions = 1 THEN 6
                    ELSE MathRound(card.interval, card.easeFactor)
    IN [card EXCEPT !.interval = interval,
                    !.repetitions = IF failed THEN 0 ELSE card.repetitions + 1,
                    !.easeFactor = IF failed THEN card.easeFactor
                                   ELSE Max(130, card.easeFactor
                                         + (10 - (5 - quality) * (8 + (5 - quality) * 2))),
                    !.nextReview = t + interval * millisInDay]

\* Mutant: a failed recall lowers easeFactor, as "hard" does in the binary
\* variant.
processRating_FailLowersEase(card, quality, t) ==
    LET interval == gradedInterval(card, quality)
    IN [card EXCEPT !.interval = interval,
                    !.repetitions = IF quality < 3 THEN 0 ELSE card.repetitions + 1,
                    !.easeFactor = IF quality < 3 THEN Max(130, card.easeFactor - 15)
                                   ELSE Max(130, card.easeFactor
                                         + (10 - (5 - quality) * (8 + (5 - quality) * 2))),
                    !.nextReview = t + interval * millisInDay]

\* processRating(card, quality) at Date.now() = t.
processRating(card, quality, t) ==
    LET interval == gradedInterval(card, quality)
        repetitions == IF quality < 3 THEN 0 ELSE card.repetitions + 1
        easeFactor == IF quality < 3 THEN card.easeFactor
                      ELSE Max(130, card.easeFactor
                                    + (10 - (5 - quality) * (8 + (5 - quality) * 2)))
    IN [card EXCEPT !.interval = interval,
                    !.repetitions = repetitions,
                    !.easeFactor = easeFactor,
                    !.nextReview = t + interval * millisInDay]

\* Mutant: the second "easy" in a row keeps the interval of one day.
binaryInterval_Flat(card, isEasy) ==
    IF ~isEasy THEN 1
    ELSE IF card.repetitions <= 1 THEN 1
    ELSE MathRound(card.interval, card.easeFactor)

\* processRatingBinary(card, isEasy) at Date.now() = t: the easy / hard update.
binaryInterval(card, isEasy) ==
    IF ~isEasy THEN 1
    ELSE IF card.repetitions = 0 THEN 1
    ELSE IF card.repetitions = 1 THEN 3
    ELSE MathRound(card.interval, card.easeFactor)

\* Mutant: "hard" leaves repetitions as it is.
processRatingBinary_KeepCount(card, isEasy, t) ==
    LET interval == binaryInterval(card, isEasy)
    IN [card EXCEPT !.interval = interval,
                    !.repetitions = IF ~isEasy THEN card.repetitions
                                    ELSE card.repetitions + 1,
                    !.easeFactor = IF ~isEasy THEN Max(130, card.easeFactor - 15)
                                   ELSE Min(card.easeFactor + 5, 250),
                    !.nextReview = t + interval * millisInDay]

\* Mutant: "hard" lowers easeFactor without the floor.
processRatingBinary_NoFloor(card, isEasy, t) ==
    LET interval == binaryInterval(card, isEasy)
    IN [card EXCEPT !.interval = interval,
                    !.repetitions = IF ~isEasy THEN 0 ELSE card.repetitions + 1,
                    !.easeFactor = IF ~isEasy THEN card.easeFactor - 15
                                   ELSE Min(card.easeFactor + 5, 250),
                    !.nextReview = t + interval * millisInDay]

processRatingBinary(card, isEasy, t) ==
    LET interval == binaryInterval(card, isEasy)
        repetitions == IF ~isEasy THEN 0 ELSE card.repetitions + 1
        easeFactor == IF ~isEasy THEN Max(130, card.easeFactor - 15)
                      ELSE Min(card.easeFactor + 5, 250)
    IN [card EXCEPT !.interval = interval,
                    !.repetitions = repetitions,
                    !.easeFactor = easeFactor,
                    !.nextReview = t + interval * millisInDay]

\* ------------------------------------------------------------- selection

\* Mutant: a card whose nextReview is the current millisecond is not due.
DueCards_Strict(cs, h, t) == SelectSeq(cs, LAMBDA r : h[r].nextReview < t)

\* cards.filter((c) => c.nextReview <= Date.now()), on references.
DueCards(cs, h, t) == SelectSeq(cs, LAMBDA r : h[r].nextReview <= t)

\* Mutant: an unstable sort, which puts x before the elements with its key.
InsertSorted_Unstable(x, s, h) ==
    LET k == Cardinality({i \in 1..Len(s) : h[s[i]].nextReview < h[x].nextReview})
    IN SubSeq(s, 1, k) \o <<x>> \o SubSeq(s, k + 1, Len(s))

\* One insertion of the stable sort by nextReview: x goes after every element
\* of the sorted sequence s whose key is not larger than its own.
InsertSorted(x, s, h) ==
    LET k == Cardinality({i \in 1..Len(s) : h[s[i]].nextReview <= h[x].nextReview})
    IN SubSeq(s, 1, k) \o <<x>> \o SubSeq(s, k + 1, Len(s))

\* dueCards.sort((a, b) => a.nextReview - b.nextReview): Array.prototype.sort
\* is stable, so cards with equal nextReview keep their order.
RECURSIVE SortByNextReview(_, _)
SortByNextReview(s, h) ==
    IF s = <<>> THEN <<>>
    ELSE InsertSorted(s[Len(s)], SortByNextReview(SubSeq(s, 1, Len(s) - 1), h), h)

\* Mutant: the sort is applied to the collection itself.
showNextCard_SortsInPlace(cs, h, cur, t) ==
    LET dueCards == DueCards(cs, h, t)
        sorted == SortByNextReview(cs, h)
    IN IF Len(dueCards) = 0
       THEN [cards |-> cs, currentCard |-> cur, revealHidden |-> TRUE,
             noDueHidden |-> FALSE, cardBoxHidden |-> TRUE]
       ELSE [cards |-> sorted,
             currentCard |-> SortByNextReview(dueCards, h)[1],
             revealHidden |-> TRUE, noDueHidden |-> TRUE, cardBoxHidden |-> FALSE]

\* showNextCard() at Date.now() = t: what it leaves in the collection, in
\* currentCard and in the three elements whose visibility it sets.
showNextCard(cs, h, cur, t) ==
    LET dueCards == DueCards(cs, h, t)
    IN IF Len(dueCards) = 0
       THEN [cards |-> cs, currentCard |-> cur, revealHidden |-> TRUE,
             noDueHidden |-> FALSE, cardBoxHidden |-> TRUE]
       ELSE [cards |-> cs, currentCard |-> SortByNextReview(dueCards, h)[1],
             revealHidden |-> TRUE, noDueHidden |-> TRUE, cardBoxHidden |-> FALSE]

\* ------------------------------------------------------------ persistence

\* JSON.stringify(cards) followed by JSON.parse: the array of the cards'
\* fields, in collection order.
Serialize(cs, h) == [i \in 1..Len(cs) |-> h[cs[i]]]

\* Mutant: the user is warned at every failed write.
saveCards_WarnEachTime(cs, h, ok, st, w) ==
    IF ok THEN [stored |-> Serialize(cs, h), warned |-> w, alerts |-> <<>>,
                returned |-> "undefined"]
    ELSE [stored |-> st, warned |-> TRUE, alerts |-> <<StorageWarning>>,
          returned |-> "undefined"]

\* Mutant: the call returns without writing.
saveCards_NoWrite(cs, h, ok, st, w) ==
    [stored |-> st, warned |-> w, alerts |-> <<>>, returned |-> "undefined"]

\* saveCards(cards): the write either succeeds (ok) or localStorage.setItem
\* throws; the first failure of a session sets saveCards._warned.
\* The function has no return statement: its caller gets undefined.
saveCards(cs, h, ok, st, w) ==
    IF ok THEN [stored |-> Serialize(cs, h), warned |-> w, alerts |-> <<>>,
                returned |-> "undefined"]
    ELSE [stored |-> st, warned |-> TRUE,
          alerts |-> IF w THEN <<>> ELSE <<StorageWarning>>,
          returned |-> "undefined"]

\* Objects no variable refers to any more are dropped from the heap.
Live(h, cs, cur) == [r \in (Range(cs) \cup ({cur} \ {NULL})) |-> h[r]]

\* The k smallest references not referred to by cur and not in `used`.
RECURSIVE FreshRefs(_, _)
FreshRefs(k, used) ==
    IF k = 0 THEN <<>>
    ELSE LET r == CHOOSE x \in Refs \ used : \A y \in Refs \ used : x <= y
         IN <<r>> \o FreshRefs(k - 1, used \cup {r})

\* What `last` records of a step: the handler, the scheduler function it ran
\* (or "none"), its rating, the object rated and its fields before and after.
Step(op, fn, quality, isEasy, ref, pre, post) ==
    [op |-> op, fn |-> fn, quality |-> quality, isEasy |-> isEasy,
     ref |-> ref, pre |-> pre, post |-> post]

Plain(op) == Step(op, "none", 0, FALSE, NULL, NoCard, NoCard)

\* No skipOneDay call has just been made; rec tells whether the
\* specification records the calls.
NoRun(rec) ==
    [rec |-> rec, n |-> 0, cards |-> <<>>, base |-> [r \in {} |-> NoCard]]

\* No loadCards() call is modelled.
NoLoad == [pc |-> "none"]

\* No saveCards call has been made; rec tells whether the specification
\* records the calls.
NoSaves(rec) ==
    [rec |-> rec, tick |-> FALSE, ok |-> TRUE, given |-> <<>>, fails |-> 0,
     warnings |-> 0, okReturns |-> {}, failReturns |-> {}]

\* The history after one more saveCards call: the collection it was given,
\* whether its write succeeded, what it returned to its caller and the
\* warnings it raised; tick changes with every call.
Saved(sh, cs, h, ok, sv) ==
    IF ~sh.rec THEN sh
    ELSE [rec |-> TRUE, tick |-> ~sh.tick, ok |-> ok,
          given |-> Serialize(cs, h),
          fails |-> IF ok THEN sh.fails ELSE sh.fails + 1,
          warnings |-> sh.warnings
                         + Len(SelectSeq(sv.alerts, LAMBDA a : a = StorageWarning)),
          okReturns |-> IF ok THEN sh.okReturns \cup {sv.returned}
                        ELSE sh.okReturns,
          failReturns |-> IF ok THEN sh.failReturns
                          ELSE sh.failReturns \cup {sv.returned}]

\* The IndexedDB database is not in use.
NoDb == [pc |-> "none"]

\* No transaction has ended yet; tick changes with every saveCards call that
\* ends, failed tells how it ended for its caller and given is the
\* collection it was to write.
NoCallEnded == [tick |-> FALSE, failed |-> FALSE, given |-> <<>>]

\* The database in use, its object store holding the records of deck: the
\* store keeps one record for each key, the key of a card being its id.
\* called and wanted tell whether saveCards was called and what the
\* collection held at the last call.
OpenDb(deck) ==
    [pc |-> "open", store |-> Range(deck), pending |-> <<>>, warned |-> FALSE,
     hist |-> NoCallEnded, called |-> FALSE, wanted |-> <<>>]

\* An element of an array that a saveCards call in flight holds: an object
\* of the heap, or the fields of an object that nothing else refers to any
\* more.
Slot(r) == [ref |-> r, val |-> NoCard]

\* A call given the array that `cards` referred to keeps that array when
\* `cards` is assigned another one.
Frozen(e, oldcs) ==
    IF e.live
    THEN [e EXCEPT !.live = FALSE,
                   !.slots = [i \in 1..Len(oldcs) |-> Slot(oldcs[i])]]
    ELSE e

\* The objects that leave the heap keep the fields they had in h.
Detached(e, keep, h) ==
    [e EXCEPT !.slots = [i \in DOMAIN e.slots |->
                            IF e.slots[i].ref # NULL /\ e.slots[i].ref \notin keep
                            THEN [ref |-> NULL, val |-> h[e.slots[i].ref]]
                            ELSE e.slots[i]]]

\* What a handler does to the calls in flight.  kind tells what it did to
\* the array: "same" (push, or the objects changed in place), "filtered"
\* (cards = cards.filter(...): another array of the same objects) or
\* "assigned" (cards = imported: another array of other objects).
Settled(d, kind, oldcs, h, h2, cur) ==
    IF d.pc = "none" THEN d
    ELSE [d EXCEPT !.pending =
             [i \in DOMAIN d.pending |->
                 Detached(IF kind = "same" THEN d.pending[i]
                          ELSE Frozen(d.pending[i], oldcs),
                          IF kind = "assigned"
                          THEN ({cur} \ {NULL}) \cap DOMAIN h2
                          ELSE DOMAIN h2,
                          h)]]

\* saveCards(cards) of the IndexedDB version is called: an async function,
\* it returns at await openDB() and does the rest later.
Called(d, held) ==
    [d EXCEPT !.called = TRUE, !.wanted = held,
              !.pending =
        Append(@, [stage |-> "opening", live |-> TRUE, slots |-> <<>>,
                   puts |-> <<>>, given |-> <<>>, threw |-> FALSE])]

\* The add section's form is not modelled.
NoForm == [pc |-> "none"]

\* The audio element is not followed by the specification.
NoPlayer == [pc |-> "none"]

NoTimer == 0

\* stopAudio(): clearTimeout(audioLoopTimeout) removes the timer the variable
\* names, if it is still pending; the element is paused and loses its
\* onended handler.  stopped records that this was the last thing asked of
\* the element.
stopAudio(p) ==
    IF p.pc = "none" THEN p
    ELSE [p EXCEPT !.timers = SelectSeq(@, LAMBDA x : x # p.handle),
                   !.handle = NoTimer,
                   !.paused = TRUE,
                   !.onended = FALSE,
                   !.stopped = TRUE]

\* setupAudioLooping() followed by cardAudio.play(); ok tells whether the
\* promise of play() is fulfilled (an element that is playing goes on).
startAudio(p, ok) ==
    [p EXCEPT !.onended = TRUE,
              !.paused = IF p.paused THEN ~ok ELSE FALSE,
              !.stopped = FALSE]

\* The part of showNextCard() that acts on the audio element; r is what
\* the function leaves, h the heap it read.
ShowAudio(p, r, h, ok) ==
    IF p.pc = "none" THEN p
    ELSE IF r.cardBoxHidden THEN stopAudio(p)
    ELSE IF h[r.currentCard].audioData # NoAudio
         THEN startAudio([stopAudio(p) EXCEPT !.src = h[r.currentCard].audioData], ok)
         ELSE [stopAudio(p) EXCEPT !.src = NoAudio]

\* The outcomes of play() a specification lets happen.
Plays(p) == IF p.pc = "none" THEN {TRUE} ELSE BOOLEAN

ShowsCard(r, h) == \E ok \in Plays(player) : player' = ShowAudio(player, r, h, ok)

\* saveCards(cards) called by a handler.  With localStorage sv is what the
\* call does, and a specification that records the calls lets at most
\* MaxFails writes fail.  With IndexedDB the call is put in flight, at most
\* MaxPending at a time; ok, the outcome of localStorage.setItem, has no
\* part in it.  kind is as for Settled.
Persist(cs, h, ok, sv, kind) ==
    IF db.pc = "none"
    THEN /\ (saves.rec /\ ~ok) => saves.fails < MaxFails
         /\ stored' = sv.stored
         /\ warned' = sv.warned
         /\ saves' = Saved(saves, cs, h, ok, sv)
         /\ db' = db
    ELSE /\ ok
         /\ Len(db.pending) < MaxPending
         /\ db' = Called(Settled(db, kind, cards, heap, heap', currentCard),
                         Serialize(cs, h))
         /\ UNCHANGED <<stored, warned, saves>>

\* A step that is not a skipOneDay call ends the run of them.
EndRun == skipRun' = NoRun(skipRun.rec)

\* A step that raises no alert and is not a skipOneDay call.
Quiet == alerts' = <<>> /\ EndRun

\* ------------------------------------------------------------------ inputs
Questions == {"q"}
Answers   == {"a"}
Audios    == {NoAudio}

\* Outcomes of localStorage.setItem: TRUE when the write succeeds.
Writes    == {TRUE}

\* Cards of an import file.  The handler takes any JSON array, so the fields
\* need not be ones the application itself would have produced.
ImportedLow  == [NewCard(101, "q", "a", NoAudio, 0) EXCEPT !.easeFactor = 100]
ImportedHigh == [NewCard(102, "q", "a", NoAudio, 0) EXCEPT
                    !.easeFactor = 270, !.repetitions = 2, !.interval = 6]

\* What JSON.parse makes of the file: an array of cards, another JSON value,
\* or a SyntaxError.
ImportPayloads ==
    {[kind |-> "array", cards |-> <<>>],
     [kind |-> "array", cards |-> <<ImportedLow, ImportedHigh>>],
     [kind |-> "value", cards |-> <<>>],
     [kind |-> "error", cards |-> <<>>]}

\* The files imported in the study session: one of the two rejected kinds is
\* enough there, the handler leaving the same state after both but for the
\* text of the alert.
StudyPayloads == {p \in ImportPayloads : p.kind # "error"}

\* ------------------------------------------------------------ the session

\* Page load with nothing stored: cards = loadCards() is empty, currentCard is
\* null and startStudy() finds nothing due.
Init ==
    /\ heap = [r \in {} |-> NoCard]
    /\ cards = <<>>
    /\ currentCard = NULL
    /\ now = 0
    /\ section = "study"
    /\ cardBoxHidden = TRUE
    /\ noDueHidden = FALSE
    /\ revealHidden = TRUE
    /\ stored = <<>>
    /\ warned = FALSE
    /\ nextId = 1
    /\ ratings = 0
    /\ streak = 0
    /\ player = NoPlayer
    /\ last = Plain("load")
    /\ editingCardId = NoId
    /\ alerts = <<>>
    /\ exported = <<>>
    /\ skipRun = NoRun(FALSE)
    /\ load = NoLoad
    /\ saves = NoSaves(FALSE)
    /\ db = NoDb
    /\ form = NoForm

\* A day passes between two events.
Tick ==
    /\ (now \div millisInDay) < MaxDays
    /\ now' = now + millisInDay
    /\ last' = Plain("tick")
    /\ Quiet
    /\ UNCHANGED <<heap, cards, currentCard, section, cardBoxHidden, noDueHidden,
                   revealHidden, stored, warned, nextId, ratings, streak, player, editingCardId,
                   exported, load, saves, db, form>>

\* navAdd click.
NavAdd ==
    /\ section' = "add"
    /\ player' = stopAudio(player)
    /\ last' = Plain("navAdd")
    /\ Quiet
    /\ UNCHANGED <<heap, cards, currentCard, now, cardBoxHidden, noDueHidden,
                   revealHidden, stored, warned, nextId, ratings, streak, editingCardId,
                   exported, load, saves, db, form>>

\* navStudy click: startStudy() and the study section is shown.
NavStudy ==
    LET r == showNextCard(cards, heap, currentCard, now)
    IN /\ cards' = r.cards
       /\ currentCard' = r.currentCard
       /\ heap' = Live(heap, r.cards, r.currentCard)
       /\ cardBoxHidden' = r.cardBoxHidden
       /\ noDueHidden' = r.noDueHidden
       /\ revealHidden' = r.revealHidden
       /\ section' = "study"
       /\ last' = Plain("navStudy")
       /\ Quiet
       /\ db' = Settled(db, "same", cards, heap, heap', currentCard)
       /\ ShowsCard(r, heap)
       /\ UNCHANGED <<now, stored, warned, nextId, ratings, streak, editingCardId,
                      exported, load, saves, form>>

\* Click on the question or on "Show Answer", both inside the card box.
RevealAnswer ==
    /\ section = "study"
    /\ ~cardBoxHidden
    /\ revealHidden' = FALSE
    /\ last' = Plain("reveal")
    /\ Quiet
    /\ UNCHANGED <<heap, cards, currentCard, now, section, cardBoxHidden,
                   noDueHidden, stored, warned, nextId, ratings, streak, player, editingCardId,
                   exported, load, saves, db, form>>

\* Click on a rating button.  The buttons are inside the reveal area of the
\* card box, so they can be clicked only while both are shown.
RatingClick(isEasy, ok) ==
    /\ section = "study"
    /\ ~cardBoxHidden
    /\ ~revealHidden
    /\ IF currentCard = NULL
       THEN /\ last' = Plain("rateNone")
            /\ Quiet
            /\ UNCHANGED <<heap, cards, currentCard, now, section, cardBoxHidden,
                           noDueHidden, revealHidden, stored, warned, nextId,
                           ratings, streak, player, editingCardId, exported, load, saves, db, form>>
       ELSE LET post == processRatingBinary(heap[currentCard], isEasy, now)
                h1 == [heap EXCEPT ![currentCard] = post]
                sv == saveCards(cards, h1, ok, stored, warned)
                r == showNextCard(cards, h1, currentCard, now)
            IN /\ binaryInterval(heap[currentCard], isEasy) <= MaxInterval
               /\ ratings < MaxRatings
               /\ ratings' = ratings + 1
               /\ cards' = r.cards
               /\ currentCard' = r.currentCard
               /\ heap' = Live(h1, r.cards, r.currentCard)
               /\ cardBoxHidden' = r.cardBoxHidden
               /\ noDueHidden' = r.noDueHidden
               /\ revealHidden' = r.revealHidden
               /\ Persist(cards, h1, ok, sv, "same")
               /\ alerts' = sv.alerts
               /\ EndRun
               /\ last' = Step("rate", "processRatingBinary", 0, isEasy,
                               currentCard, heap[currentCard], post)
               /\ ShowsCard(r, h1)
               /\ UNCHANGED <<now, section, nextId, editingCardId, exported,
                              load, form, streak>>

\* Mutant: each card is brought forward by its own interval.
shiftAll_ByInterval(cs, h) ==
    [r \in DOMAIN h |-> IF r \in Range(cs)
                        THEN [h[r] EXCEPT !.nextReview = @ - h[r].interval * millisInDay]
                        ELSE h[r]]

\* Mutant: the shift has the wrong sign.
shiftAll_Forward(cs, h) ==
    [r \in DOMAIN h |-> IF r \in Range(cs)
                        THEN [h[r] EXCEPT !.nextReview = @ + millisInDay]
                        ELSE h[r]]

\* cards.forEach((card) => { card.nextReview -= millisInDay; })
shiftAll(cs, h) ==
    [r \in DOMAIN h |-> IF r \in Range(cs)
                        THEN [h[r] EXCEPT !.nextReview = @ - millisInDay]
                        ELSE h[r]]

\* Click on "Skip One Day", a button of the study section: skipOneDay().
SkipDay(ok) ==
    /\ section = "study"
    /\ \A i \in 1..Len(cards) :
          heap[cards[i]].nextReview - millisInDay >= -(MaxSkips * millisInDay)
    /\ (skipRun.rec /\ cards = <<>>) => skipRun.n < MaxSkips
    /\ LET h1 == shiftAll(cards, heap)
           sv == saveCards(cards, h1, ok, stored, warned)
           r == showNextCard(cards, h1, currentCard, now)
       IN /\ cards' = r.cards
          /\ currentCard' = r.currentCard
          /\ heap' = Live(h1, r.cards, r.currentCard)
          /\ cardBoxHidden' = r.cardBoxHidden
          /\ noDueHidden' = r.noDueHidden
          /\ revealHidden' = r.revealHidden
          /\ Persist(cards, h1, ok, sv, "same")
          /\ alerts' = sv.alerts
          /\ skipRun' = IF skipRun.rec
                        THEN [rec |-> TRUE, n |-> skipRun.n + 1,
                              cards |-> IF skipRun.n = 0 THEN cards
                                        ELSE skipRun.cards,
                              base |-> IF skipRun.n = 0 THEN heap
                                       ELSE skipRun.base]
                        ELSE skipRun
          /\ last' = Plain("skip")
          /\ ShowsCard(r, h1)
          /\ UNCHANGED <<now, section, nextId, ratings, streak, editingCardId, exported,
                         load, form>>

\* The inputs of the form after createCard: the texts and the file input
\* are emptied, generatedAudioData is left alone.
resetForm(f) ==
    IF f.pc = "none" THEN f
    ELSE [f EXCEPT !.prompt = "", !.question = "", !.answer = "", !.file = FALSE]

\* createCard(question, answer, audioData), reached from the Save button of
\* the add section while no card is being edited.  The id is Date.now() and a
\* random suffix: a value no other card of the session has.  f is the form
\* as the Save handler left it.
CreateCardFrom(question, answer, audioData, ok, f) ==
    /\ section = "add"
    /\ editingCardId = NoId
    /\ nextId <= MaxCards
    /\ LET ref == FreshRefs(1, DOMAIN heap)[1]
           card == NewCard(nextId, question, answer, audioData, now)
           h1 == [r \in DOMAIN heap \cup {ref} |-> IF r = ref THEN card ELSE heap[r]]
           cs == Append(cards, ref)
           sv == saveCards(cs, h1, ok, stored, warned)
       IN /\ cards' = cs
          /\ heap' = h1
          /\ Persist(cs, h1, ok, sv, "same")
          /\ nextId' = nextId + 1
          /\ alerts' = sv.alerts
          /\ EndRun
          /\ last' = Step("create", "none", 0, FALSE, ref, NoCard, card)
          /\ form' = resetForm(f)
          /\ UNCHANGED <<currentCard, now, section, cardBoxHidden, noDueHidden,
                         revealHidden, ratings, streak, player, editingCardId, exported, load>>

CreateCard(question, answer, audioData, ok) ==
    CreateCardFrom(question, answer, audioData, ok, form)

\* Mutant: the card is looked up and its position removed, counting from 0
\* where the sequence counts from 1.
removeCard_OffByOne(cs, h, id) ==
    LET i == CHOOSE i \in 1..Len(cs) : h[cs[i]].id = id
        k == IF i < Len(cs) THEN i + 1 ELSE 1
    IN SubSeq(cs, 1, k - 1) \o SubSeq(cs, k + 1, Len(cs))

\* cards.filter((c) => c.id !== id)
removeCard(cs, h, id) == SelectSeq(cs, LAMBDA r : h[r].id # id)

\* deleteCard(id), reached from a Delete button of the card list in the add
\* section; the list holds one button per card of the collection.  `last`
\* records the card whose button was clicked.
DeleteCard(id, ok) ==
    /\ section = "add"
    /\ \E i \in 1..Len(cards) : heap[cards[i]].id = id
    /\ LET cs == removeCard(cards, heap, id)
           sv == saveCards(cs, heap, ok, stored, warned)
           asked == cards[CHOOSE i \in 1..Len(cards) :
                            /\ heap[cards[i]].id = id
                            /\ \A j \in 1..(i - 1) : heap[cards[j]].id # id]
       IN /\ cards' = cs
          /\ heap' = Live(heap, cs, currentCard)
          /\ Persist(cs, heap, ok, sv, "filtered")
          /\ alerts' = sv.alerts
          /\ EndRun
          /\ last' = Step("delete", "none", 0, FALSE, asked, heap[asked], NoCard)
          /\ UNCHANGED <<currentCard, now, section, cardBoxHidden, noDueHidden,
                         revealHidden, nextId, ratings, streak, player, editingCardId, exported,
                         load, form>>

\* Mutant: every value that parses is taken for the collection.
isArray_AnyValue(payload) == payload.kind # "error"

\* JSON.parse(ev.target.result) returns and Array.isArray(imported) holds.
isArray(payload) == payload.kind = "array"

\* Mutant: the imported cards are added to the collection.
assignImported_Merge(cs, imported) == cs \o imported

\* cards = imported
assignImported(cs, imported) == imported

\* The import file has been read (reader.onload).  The Import button is in the
\* page header, so this can happen in either section.
ImportFile(payload, ok) ==
    /\ IF isArray(payload)
       THEN LET n == Len(payload.cards)
                refs == FreshRefs(n, {currentCard} \ {NULL})
                h1 == [r \in DOMAIN heap \cup Range(refs) |->
                          IF \E i \in 1..n : refs[i] = r
                          THEN payload.cards[CHOOSE i \in 1..n : refs[i] = r]
                          ELSE heap[r]]
                cs == assignImported(cards, refs)
                sv == saveCards(cs, h1, ok, stored, warned)
            IN /\ cards' = cs
               /\ heap' = Live(h1, cs, currentCard)
               /\ Persist(cs, h1, ok, sv, "assigned")
               /\ alerts' = sv.alerts \o <<"Import successful!">>
       ELSE /\ alerts' = IF payload.kind = "value" THEN <<"Invalid file">>
                         ELSE <<"Error parsing file">>
            /\ UNCHANGED <<heap, cards, stored, warned, saves, db>>
    /\ EndRun
    /\ last' = Plain(IF payload.kind = "array" THEN "import"
                     ELSE IF payload.kind = "value" THEN "importValue"
                     ELSE "importError")
    /\ UNCHANGED <<currentCard, now, section, cardBoxHidden, noDueHidden,
                   revealHidden, nextId, ratings, streak, player, editingCardId, exported,
                         load, form>>

\* beginEdit(id), reached from an Edit button of the card list in the add
\* section.
BeginEdit(id) ==
    /\ section = "add"
    /\ \E i \in 1..Len(cards) : heap[cards[i]].id = id
    /\ editingCardId' = id
    /\ section' = "add"
    /\ last' = Plain("beginEdit")
    /\ Quiet
    /\ UNCHANGED <<heap, cards, currentCard, now, cardBoxHidden, noDueHidden,
                   revealHidden, stored, warned, nextId, ratings, streak, player, exported,
                   load, saves, db, form>>

\* Click on "Cancel", shown next to the Save button while a card is edited.
CancelEdit ==
    /\ section = "add"
    /\ editingCardId # NoId
    /\ editingCardId' = NoId
    /\ last' = Plain("cancelEdit")
    /\ Quiet
    /\ UNCHANGED <<heap, cards, currentCard, now, section, cardBoxHidden,
                   noDueHidden, revealHidden, stored, warned, nextId, ratings, streak, player,
                   exported, load, saves, db, form>>

\* Mutant: the edited card is scheduled anew, as a created card is.
editedCard_Rescheduled(card, question, answer, audioData, t) ==
    [card EXCEPT !.question = question, !.answer = answer,
                 !.audioData = audioData, !.nextReview = t]

\* The assignments of updateExistingCard to the card it found.
editedCard(card, question, answer, audioData, t) ==
    [card EXCEPT !.question = question, !.answer = answer,
                 !.audioData = audioData]

\* Click on the Save button while a card is edited:
\* updateExistingCard(editingCardId, question, answer, audioData).  Without an
\* attached or generated audio (attached = NoAudio) the handler passes the
\* audioData the card has.  cards.find takes the first card with the id; when
\* there is none the function returns at once.
UpdateExistingCard(question, answer, attached, ok) ==
    /\ section = "add"
    /\ editingCardId # NoId
    /\ IF \E i \in 1..Len(cards) : heap[cards[i]].id = editingCardId
       THEN LET i == CHOOSE i \in 1..Len(cards) :
                        /\ heap[cards[i]].id = editingCardId
                        /\ \A j \in 1..(i - 1) : heap[cards[j]].id # editingCardId
                ref == cards[i]
                audioData == IF attached = NoAudio THEN heap[ref].audioData
                             ELSE attached
                post == editedCard(heap[ref], question, answer, audioData, now)
                h1 == [heap EXCEPT ![ref] = post]
                sv == saveCards(cards, h1, ok, stored, warned)
            IN /\ heap' = h1
               /\ Persist(cards, h1, ok, sv, "same")
               /\ alerts' = sv.alerts
               /\ editingCardId' = NoId
               /\ last' = Step("update", "none", 0, FALSE, ref, heap[ref], post)
       ELSE /\ alerts' = <<>>
            /\ last' = Plain("updateNone")
            /\ UNCHANGED <<heap, stored, warned, editingCardId, saves, db>>
    /\ EndRun
    /\ UNCHANGED <<cards, currentCard, now, section, cardBoxHidden, noDueHidden,
                   revealHidden, nextId, ratings, streak, player, exported, load, form>>

Next ==
    \/ Tick
    \/ NavAdd
    \/ NavStudy
    \/ RevealAnswer
    \/ \E isEasy \in BOOLEAN, ok \in Writes : RatingClick(isEasy, ok)
    \/ \E ok \in Writes : SkipDay(ok)
    \/ \E q \in Questions, a \in Answers, au \in Audios, ok \in Writes :
          Len(cards) < MaxCards /\ CreateCard(q, a, au, ok)
    \/ \E id \in 1..MaxCards, ok \in Writes : DeleteCard(id, ok)
    \/ \E p \in StudyPayloads, ok \in Writes : ImportFile(p, ok)

Spec == Init /\ [][Next]_vars

\* ------------------------------------------------- the scheduler by itself
\* The two rating functions applied directly to one card, in any mix: the
\* graded processRating is the one the earlier rating handler called, the
\* binary one is called by the present handler, and both versions keep their
\* cards under the same storage key.  The card starts as createCard makes it, or with fields loaded from
\* storage or from an import file.

SchedCards ==
    {[NewCard(1, "q", "a", NoAudio, 0) EXCEPT
         !.repetitions = ri[1], !.interval = ri[2], !.easeFactor = ef] :
       ri \in {<<0, 0>>, <<1, 1>>, <<2, 6>>}, ef \in {20, 100, 130, 250, 270}}

SchedInit ==
    /\ \E c \in SchedCards : heap = [r \in {1} |-> c]
    /\ cards = <<1>>
    /\ currentCard = NULL
    /\ now = 0
    /\ section = "study"
    /\ cardBoxHidden = TRUE
    /\ noDueHidden = TRUE
    /\ revealHidden = TRUE
    /\ stored = <<>>
    /\ warned = FALSE
    /\ nextId = 2
    /\ ratings = 0
    /\ streak = 0
    /\ player = NoPlayer
    /\ last = Plain("load")
    /\ editingCardId = NoId
    /\ alerts = <<>>
    /\ exported = <<>>
    /\ skipRun = NoRun(FALSE)
    /\ load = NoLoad
    /\ saves = NoSaves(FALSE)
    /\ db = NoDb
    /\ form = NoForm

SchedFrame ==
    UNCHANGED <<cards, currentCard, section, cardBoxHidden, noDueHidden,
                revealHidden, stored, warned, nextId, editingCardId, alerts,
                exported, load, saves, db, form, skipRun>>

\* processRating(card, quality) is called at the current time.
SchedRate(quality) ==
    LET post == processRating(heap[1], quality, now)
    IN /\ ratings < MaxSchedRatings
       /\ gradedInterval(heap[1], quality) <= MaxInterval
       /\ heap' = [heap EXCEPT ![1] = post]
       /\ ratings' = ratings + 1
       /\ streak' = IF quality >= 3 THEN streak + 1 ELSE 0
       /\ player' = player
       /\ last' = Step("sched", "processRating", quality, FALSE, 1, heap[1], post)
       /\ UNCHANGED now
       /\ SchedFrame

\* processRatingBinary(card, isEasy) is called at the current time.
SchedRateBinary(isEasy) ==
    LET post == processRatingBinary(heap[1], isEasy, now)
    IN /\ ratings < MaxSchedRatings
       /\ binaryInterval(heap[1], isEasy) <= MaxInterval
       /\ heap' = [heap EXCEPT ![1] = post]
       /\ ratings' = ratings + 1
       /\ streak' = IF isEasy THEN streak + 1 ELSE 0
       /\ player' = player
       /\ last' = Step("sched", "processRatingBinary", 0, isEasy, 1, heap[1], post)
       /\ UNCHANGED now
       /\ SchedFrame

\* Time passes between two ratings: a millisecond, or a day.
SchedTick(d) ==
    /\ (d = 1) => (now % millisInDay) < MaxMillis
    /\ (d = millisInDay) => (now \div millisInDay) < MaxDays
    /\ now' = now + d
    /\ last' = Plain("tick")
    /\ UNCHANGED <<heap, ratings, streak, player>>
    /\ SchedFrame

SchedNext ==
    \/ \E quality \in 0..5 : SchedRate(quality)
    \/ \E isEasy \in BOOLEAN : SchedRateBinary(isEasy)
    \/ \E d \in {1, millisInDay} : SchedTick(d)

SchedSpec == SchedInit /\ [][SchedNext]_vars

\* The card of the scheduler is one that createCard has made, and nothing
\* but the two rating functions changes it.
CreatedInit == SchedInit /\ heap[1] = NewCard(1, "q", "a", NoAudio, 0)

CreatedSpec == CreatedInit /\ [][SchedNext]_vars

\* --------------------------------------------------- the deck being managed
\* The application started with cards in storage, and the card list of the
\* add section: create, edit, cancel, delete, and import.  Storage writes
\* succeed here; the clock stands still.

DataUri == "data:audio/mp3;base64,AAAA"

DeckAudios == {NoAudio, DataUri}

\* The files imported here: an empty array, an array of one card, a JSON
\* value that is not an array, and a text that does not parse.
DeckPayloads ==
    {[kind |-> "array", cards |-> <<>>],
     [kind |-> "array", cards |-> <<ImportedLow>>],
     [kind |-> "value", cards |-> <<>>],
     [kind |-> "error", cards |-> <<>>]}

\* The texts typed into the form while a card is edited.
EditedQuestion == "say \"q\""
EditedAnswer   == "a\\b"

EditQuestions == {EditedQuestion}
EditAnswers   == {EditedAnswer}

\* Cards the application has stored in an earlier session, a day before the
\* page is loaded.
StoredNew   == NewCard(201, "q", "a", DataUri, 0)
StoredLater == [NewCard(202, "q", "a", NoAudio, 0) EXCEPT
                   !.interval = 3, !.repetitions = 2, !.easeFactor = 235,
                   !.nextReview = 2 * millisInDay]

StoredDecks == {<<>>, <<StoredLater, StoredNew>>}

\* Page load: cards = loadCards() parses what storage holds, renderCardList(),
\* then startStudy() shows the earliest due card.  recRun and recSaves tell
\* which histories the specification records, st is what localStorage holds,
\* d the IndexedDB database and f the form of the add section.
LoadedPlaying(deck, recRun, recSaves, st, d, f, p, ok) ==
        LET cs == FreshRefs(Len(deck), {})
            h == [r \in Range(cs) |-> deck[CHOOSE i \in 1..Len(deck) : cs[i] = r]]
            r == showNextCard(cs, h, NULL, millisInDay)
        IN /\ heap = h
           /\ cards = r.cards
           /\ currentCard = r.currentCard
           /\ now = millisInDay
           /\ section = "study"
           /\ cardBoxHidden = r.cardBoxHidden
           /\ noDueHidden = r.noDueHidden
           /\ revealHidden = r.revealHidden
           /\ stored = st
           /\ warned = FALSE
           /\ nextId = 1
           /\ ratings = 0
           /\ streak = 0
           /\ player = ShowAudio(p, r, h, ok)
           /\ last = Plain("load")
           /\ editingCardId = NoId
           /\ alerts = <<>>
           /\ exported = <<>>
           /\ skipRun = NoRun(recRun)
           /\ load = NoLoad
           /\ saves = NoSaves(recSaves)
           /\ db = d
           /\ form = f

Loaded(deck, recRun, recSaves, st, d, f) ==
    LoadedPlaying(deck, recRun, recSaves, st, d, f, NoPlayer, TRUE)

\* The page loaded by the localStorage version.
StoredInit(recRun, recSaves) ==
    \E deck \in StoredDecks : Loaded(deck, recRun, recSaves, deck, NoDb, NoForm)

DeckInit == StoredInit(TRUE, FALSE)

HeldIds == {heap[cards[i]].id : i \in 1..Len(cards)}

DeckNext ==
    \/ NavAdd
    \/ NavStudy
    \/ \E q \in Questions, a \in Answers, au \in Audios, ok \in Writes :
          Len(cards) < MaxCards + 2 /\ CreateCard(q, a, au, ok)
    \/ \E id \in HeldIds : BeginEdit(id)
    \/ CancelEdit
    \/ \E q \in EditQuestions, a \in EditAnswers, au \in DeckAudios,
          ok \in Writes :
          UpdateExistingCard(q, a, au, ok)
    \/ \E id \in HeldIds, ok \in Writes : DeleteCard(id, ok)
    \/ \E p \in DeckPayloads, ok \in Writes : ImportFile(p, ok)

DeckSpec == DeckInit /\ [][DeckNext]_vars

\* The same page load followed by runs of "Skip One Day" clicks, broken by
\* the operations that add, remove or replace cards.
SkipNext ==
    \/ NavAdd
    \/ NavStudy
    \/ \E ok \in Writes : SkipDay(ok)
    \/ \E q \in Questions, a \in Answers, au \in Audios, ok \in Writes :
          Len(cards) < MaxCards + 2 /\ CreateCard(q, a, au, ok)
    \/ \E id \in HeldIds, ok \in Writes : DeleteCard(id, ok)
    \/ \E p \in DeckPayloads, ok \in Writes : ImportFile(p, ok)

SkipSpec == DeckInit /\ [][SkipNext]_vars

\* ------------------------------------------------- storage that may fail
\* The operations that replace or shrink the collection, each followed by a
\* write to localStorage that succeeds or throws (a full or a blocked store).

StoreWrites == BOOLEAN

StoreInit == StoredInit(FALSE, TRUE)

StoreNext ==
    \/ NavAdd
    \/ NavStudy
    \/ \E q \in Questions, a \in Answers, au \in Audios, ok \in StoreWrites :
          Len(cards) < MaxCards + 2 /\ CreateCard(q, a, au, ok)
    \/ \E id \in HeldIds, ok \in StoreWrites : DeleteCard(id, ok)
    \/ \E p \in DeckPayloads, ok \in StoreWrites : ImportFile(p, ok)

StoreSpec == StoreInit /\ [][StoreNext]_vars

\* --------------------------------------------------- every operation
\* The six operations that change cards (create, edit, delete, rating,
\* skipOneDay, import) in one session of the localStorage version, every
\* write succeeding; the clock stands still.
SyncDeck == <<StoredNew>>

SyncInit == Loaded(SyncDeck, FALSE, FALSE, SyncDeck, NoDb, NoForm)

SyncNext ==
    \/ NavAdd
    \/ NavStudy
    \/ RevealAnswer
    \/ \E isEasy \in BOOLEAN : RatingClick(isEasy, TRUE)
    \/ SkipDay(TRUE)
    \/ \E q \in Questions, a \in Answers, au \in Audios :
          Len(cards) < MaxCards /\ CreateCard(q, a, au, TRUE)
    \/ \E id \in HeldIds : BeginEdit(id)
    \/ \E q \in EditQuestions, a \in EditAnswers, au \in Audios :
          UpdateExistingCard(q, a, au, TRUE)
    \/ \E id \in HeldIds : DeleteCard(id, TRUE)
    \/ ImportFile([kind |-> "array", cards |-> <<ImportedLow>>], TRUE)

SyncSpec == SyncInit /\ [][SyncNext]_vars

\* ---------------------------------------------------- the study loop
\* A session that studies what storage holds: two cards are due when the
\* page is loaded (one of them at that very millisecond), a third is not.
\* The clock stands still, and no card is created, imported or brought
\* forward; cards may be edited and deleted between the ratings.
StoredDue == [StoredLater EXCEPT !.id = 203, !.nextReview = millisInDay]

\* A card that an earlier session imported with easeFactor 0.2 (repetitions
\* 2, interval 6), rated "easy" a day before the page is loaded, and saved.
StoredWeak == [NewCard(204, "q", "a", NoAudio, 0) EXCEPT
                  !.interval = 1, !.repetitions = 3, !.easeFactor = 25,
                  !.nextReview = millisInDay]

LoopDecks == {<<StoredDue, StoredLater, StoredNew>>,
              <<StoredWeak, StoredLater, StoredNew>>}

LoopInit == \E deck \in LoopDecks : Loaded(deck, FALSE, FALSE, deck, NoDb, NoForm)

LoopNext ==
    \/ NavAdd
    \/ NavStudy
    \/ RevealAnswer
    \/ \E isEasy \in BOOLEAN : RatingClick(isEasy, TRUE)
    \/ \E id \in HeldIds : BeginEdit(id)
    \/ \E q \in EditQuestions, a \in EditAnswers, au \in Audios :
          UpdateExistingCard(q, a, au, TRUE)
    \/ \E id \in HeldIds : DeleteCard(id, TRUE)

LoopSpec == LoopInit /\ [][LoopNext]_vars

\* ------------------------------------------------------ the card's audio
\* The study view with the audio element followed: the cards on storage are
\* due, the first has audio and the second has none.  The element plays
\* until its end or until it is paused; each ended event dispatched to the
\* handler of setupAudioLooping starts a timer, and the pending timers fire
\* in the order they were started (each waits the same 5 seconds).
AudioDeck == <<StoredNew, StoredDue>>

SilentPlayer ==
    [pc |-> "audio", src |-> NoAudio, paused |-> TRUE, onended |-> FALSE,
     handle |-> NoTimer, timers |-> <<>>, stopped |-> FALSE]

AudioInit ==
    \E ok \in BOOLEAN :
        LoadedPlaying(AudioDeck, FALSE, FALSE, AudioDeck, NoDb, NoForm,
                      SilentPlayer, ok)

AudioFrame ==
    UNCHANGED <<heap, cards, currentCard, now, section, cardBoxHidden,
                noDueHidden, revealHidden, stored, warned, nextId, ratings,
                streak, editingCardId, exported, load, saves, db, form>>

\* Click on the play / pause button of the card box, which is shown while
\* the current card has audio.
AudioToggle(ok) ==
    /\ player.pc = "audio"
    /\ section = "study"
    /\ ~cardBoxHidden
    /\ player.src # NoAudio
    /\ player' = IF player.paused THEN startAudio(player, ok)
                 ELSE stopAudio(player)
    /\ last' = Plain(IF player.paused THEN "audioPlay" ELSE "audioStop")
    /\ Quiet
    /\ AudioFrame

\* setTimeout gives a handle no pending timer has; the value audioLoopTimeout
\* holds is not given again, so that a stale handle clears nothing.
NewTimer(p) ==
    CHOOSE x \in 1..(MaxTimers + 1) :
        /\ x \notin Range(p.timers) \cup {p.handle}
        /\ \A y \in 1..(MaxTimers + 1) :
              y \notin Range(p.timers) \cup {p.handle} => x <= y

\* Playback reaches the end of the audio: the element is paused and the
\* ended event is dispatched to the onended handler, if there is one.
AudioEnded ==
    /\ player.pc = "audio"
    /\ ~player.paused
    /\ player.onended => Len(player.timers) < MaxTimers
    /\ player' = IF player.onended
                 THEN [player EXCEPT !.paused = TRUE,
                                     !.handle = NewTimer(player),
                                     !.timers = Append(@, NewTimer(player))]
                 ELSE [player EXCEPT !.paused = TRUE]
    /\ last' = Plain("audioEnded")
    /\ Quiet
    /\ AudioFrame

\* The oldest pending timer fires: cardAudio.currentTime = 0 and
\* cardAudio.play(), whose promise is rejected when the element has no
\* source.  audioLoopTimeout keeps the handle.
TimerFired(ok) ==
    /\ player.pc = "audio"
    /\ player.timers # <<>>
    /\ player' = [player EXCEPT !.timers = Tail(@),
                                !.paused = IF ~player.paused THEN FALSE
                                           ELSE IF player.src = NoAudio THEN TRUE
                                           ELSE ~ok]
    /\ last' = Plain("replay")
    /\ Quiet
    /\ AudioFrame

AudioNext ==
    \/ NavAdd
    \/ NavStudy
    \/ RevealAnswer
    \/ \E isEasy \in BOOLEAN : RatingClick(isEasy, TRUE)
    \/ \E ok \in BOOLEAN : AudioToggle(ok)
    \/ AudioEnded
    \/ \E ok \in BOOLEAN : TimerFired(ok)

AudioSpec == AudioInit /\ [][AudioNext]_vars

\* ------------------------------------------------------- the transfer file
\* The text of flashcards.json is kept as the sequence of its JSON tokens;
\* a string or number token holds the characters written in the file, so the
\* texts are escaped and the numbers printed in decimal on the way out and
\* scanned on the way in.

DigitChars == <<"0", "1", "2", "3", "4", "5", "6", "7", "8", "9">>

IsDigit(c) == \E d \in 1..10 : DigitChars[d] = c

DigitValue(c) == (CHOOSE d \in 1..10 : DigitChars[d] = c) - 1

\* The decimal digits of a natural number.
RECURSIVE Digits(_)
Digits(n) ==
    IF n < 10 THEN <<DigitChars[n + 1]>>
    ELSE Digits(n \div 10) \o <<DigitChars[(n % 10) + 1]>>

\* The natural number a sequence of digits denotes.
RECURSIVE DigitsValue(_)
DigitsValue(ds) ==
    IF ds = <<>> THEN 0
    ELSE 10 * DigitsValue(SubSeq(ds, 1, Len(ds) - 1)) + DigitValue(ds[Len(ds)])

\* The text JSON.stringify writes for the number whole + hun / 100 (for a
\* negative number, whole - hun / 100): the shortest decimal that denotes it.
NumberText(whole, hun) ==
    (IF whole < 0 THEN <<"-">> ELSE <<>>)
        \o Digits(IF whole < 0 THEN -whole ELSE whole)
        \o (IF hun = 0 THEN <<>>
            ELSE <<".", DigitChars[(hun \div 10) + 1]>>
                     \o (IF hun % 10 = 0 THEN <<>>
                         ELSE <<DigitChars[(hun % 10) + 1]>>))

NotANumber == [ok |-> FALSE, whole |-> 0, hun |-> 0]

\* The digits of an integer part: at least one, and no leading zero.
IsInt(ds) ==
    /\ ds # <<>>
    /\ \A i \in 1..Len(ds) : IsDigit(ds[i])
    /\ Len(ds) > 1 => ds[1] # "0"

\* The digits after a decimal point: at least one, at most two here.
IsFrac(ds) ==
    /\ ds # <<>>
    /\ Len(ds) <= 2
    /\ \A i \in 1..Len(ds) : IsDigit(ds[i])

\* The hundredths that one or two decimals denote.
Hundredths(frac) ==
    IF frac = <<>> THEN 0
    ELSE IF Len(frac) = 1 THEN 10 * DigitValue(frac[1])
    ELSE DigitsValue(frac)

Decimal(int, frac, hasDot) ==
    IF IsInt(int) /\ (IF hasDot THEN IsFrac(frac) ELSE frac = <<>>)
    THEN [ok |-> TRUE, whole |-> DigitsValue(int), hun |-> Hundredths(frac)]
    ELSE NotANumber

\* digits (. digits)? with the positions of its decimal points.
Unsigned(body, dots) ==
    IF dots = {} THEN Decimal(body, <<>>, FALSE)
    ELSE IF Cardinality(dots) > 1 THEN NotANumber
    ELSE Decimal(SubSeq(body, 1, (CHOOSE i \in dots : TRUE) - 1),
                 SubSeq(body, (CHOOSE i \in dots : TRUE) + 1, Len(body)),
                 TRUE)

DotsOf(body) == {i \in 1..Len(body) : body[i] = "."}

Negated(n) == [n EXCEPT !.whole = -@]

\* The number JSON.parse reads from the characters of a number token:
\* -? digits (. digits)?, with no leading zero and at most two decimals here.
ParseNumber(chars) ==
    IF chars # <<>> /\ chars[1] = "-"
    THEN Negated(Unsigned(Tail(chars), DotsOf(Tail(chars))))
    ELSE Unsigned(chars, DotsOf(chars))

\* Mutant: the characters are written between the quotes as they are.
JSONEscape_Raw(chars) == chars

\* The characters JSON.stringify writes between the quotes of a string: a
\* quote and a backslash are preceded by a backslash.
RECURSIVE JSONEscape(_)
JSONEscape(chars) ==
    IF chars = <<>> THEN <<>>
    ELSE (IF chars[1] \in {"\"", "\\"} THEN <<"\\", chars[1]>> ELSE <<chars[1]>>)
             \o JSONEscape(Tail(chars))

\* The string JSON.parse reads from the characters between two quotes: a
\* backslash takes the next character with it, and a quote that no backslash
\* precedes would have ended the string before the end, a SyntaxError.
RECURSIVE Unescape(_, _, _)
Unescape(s, i, acc) ==
    IF i > Len(s) THEN [ok |-> TRUE, chars |-> acc]
    ELSE IF s[i] = "\"" THEN [ok |-> FALSE, chars |-> <<>>]
    ELSE IF s[i] = "\\"
         THEN IF i < Len(s) /\ s[i + 1] \in {"\"", "\\"}
              THEN Unescape(s, i + 2, Append(acc, s[i + 1]))
              ELSE [ok |-> FALSE, chars |-> <<>>]
    ELSE Unescape(s, i + 1, Append(acc, s[i]))

\* The property names of a card, in the order createCard sets them.
KeyNames == <<"id", "question", "answer", "audioData", "interval",
              "repetitions", "easeFactor", "nextReview">>

\* The strings of the model and the characters each stands for.
Texts == {"", "q", "a", EditedQuestion, EditedAnswer, DataUri} \cup Range(KeyNames)

TextChars(s) ==
    CASE s = "" -> <<>>
      [] s = "q" -> <<"q">>
      [] s = "a" -> <<"a">>
      [] s = EditedQuestion -> <<"s", "a", "y", " ", "\"", "q", "\"">>
      [] s = EditedAnswer -> <<"a", "\\", "b">>
      [] s = DataUri -> <<"d", "a", "t", "a", ":", "a", "u", "d", "i", "o", "/",
                          "m", "p", "3", ";", "b", "a", "s", "e", "6", "4", ",",
                          "A", "A", "A", "A">>
      [] s = "id" -> <<"i", "d">>
      [] s = "question" -> <<"q", "u", "e", "s", "t", "i", "o", "n">>
      [] s = "answer" -> <<"a", "n", "s", "w", "e", "r">>
      [] s = "audioData" -> <<"a", "u", "d", "i", "o", "D", "a", "t", "a">>
      [] s = "interval" -> <<"i", "n", "t", "e", "r", "v", "a", "l">>
      [] s = "repetitions" -> <<"r", "e", "p", "e", "t", "i", "t", "i", "o", "n", "s">>
      [] s = "easeFactor" -> <<"e", "a", "s", "e", "F", "a", "c", "t", "o", "r">>
      [] s = "nextReview" -> <<"n", "e", "x", "t", "R", "e", "v", "i", "e", "w">>

\* The string with the given characters; "?" stands for every other string.
Text(chars) ==
    IF \E s \in Texts : TextChars(s) = chars
    THEN CHOOSE s \in Texts : TextChars(s) = chars
    ELSE "?"

Tok(t, v) == [t |-> t, v |-> v]

Punct(c) == Tok("punct", <<c>>)

\* A line break and its indentation (JSON.stringify(cards, null, 2)), or the
\* space after a colon.
White == Tok("space", <<>>)

StringTok(chars) == Tok("string", JSONEscape(chars))

NumberTok(whole, hun) == Tok("number", NumberText(whole, hun))

NullTok == Tok("null", <<>>)

\* One property and its value, followed by a comma unless it is the last.
Member(key, valueTok, isLast) ==
    <<StringTok(TextChars(key)), Punct(":"), White, valueTok>>
        \o (IF isLast THEN <<>> ELSE <<Punct(","), White>>)

\* A card object.  The id, a string in the code, is the string of the digits
\* of the number that stands for it; easeFactor c / 100 is printed with its
\* decimals.
CardTokens(c) ==
    <<Punct("{"), White>>
        \o Member("id", StringTok(Digits(c.id)), FALSE)
        \o Member("question", StringTok(TextChars(c.question)), FALSE)
        \o Member("answer", StringTok(TextChars(c.answer)), FALSE)
        \o Member("audioData", IF c.audioData = NoAudio THEN NullTok
                               ELSE StringTok(TextChars(c.audioData)), FALSE)
        \o Member("interval", NumberTok(c.interval, 0), FALSE)
        \o Member("repetitions", NumberTok(c.repetitions, 0), FALSE)
        \o Member("easeFactor",
                  NumberTok(c.easeFactor \div 100, c.easeFactor % 100), FALSE)
        \o Member("nextReview", NumberTok(c.nextReview, 0), TRUE)
        \o <<White, Punct("}")>>

RECURSIVE ElementTokens(_, _, _)
ElementTokens(cs, h, i) ==
    IF i > Len(cs) THEN <<>>
    ELSE CardTokens(h[cs[i]])
             \o (IF i < Len(cs) THEN <<Punct(","), White>> ELSE <<>>)
             \o ElementTokens(cs, h, i + 1)

\* JSON.stringify(cards, null, 2)
JSONStringify(cs, h) ==
    IF cs = <<>> THEN <<Punct("["), Punct("]")>>
    ELSE <<Punct("["), White>> \o ElementTokens(cs, h, 1) \o <<White, Punct("]")>>

StringValue(u) ==
    [ok |-> u.ok, k |-> "string", chars |-> u.chars, whole |-> 0, hun |-> 0]

NumberValue(n) ==
    [ok |-> n.ok, k |-> "number", chars |-> <<>>, whole |-> n.whole, hun |-> n.hun]

\* The value of a string, number or null token, or a failure.
Scalar(tok) ==
    IF tok.t = "string" THEN StringValue(Unescape(tok.v, 1, <<>>))
    ELSE IF tok.t = "number" THEN NumberValue(ParseNumber(tok.v))
    ELSE [ok |-> tok.t = "null", k |-> "null", chars |-> <<>>, whole |-> 0, hun |-> 0]

Failed == [ok |-> FALSE, next |-> 0, cards |-> <<>>, members |-> <<>>]

RECURSIVE ParseMembers(_, _, _)

\* The member whose name is token i and whose value is token i + 2, then
\* the closing brace or a comma and the members that follow.
MemberAt(ts, i, acc, key, val) ==
    IF ~(key.ok /\ key.k = "string" /\ ts[i + 1] = Punct(":") /\ val.ok)
    THEN Failed
    ELSE IF ts[i + 3] = Punct("}")
    THEN [ok |-> TRUE, next |-> i + 4, cards |-> <<>>,
          members |-> Append(acc, [key |-> Text(key.chars), val |-> val])]
    ELSE IF ts[i + 3] = Punct(",")
    THEN ParseMembers(ts, i + 4,
                      Append(acc, [key |-> Text(key.chars), val |-> val]))
    ELSE Failed

\* The members of an object from token i, which is to be a property name, up
\* to the closing brace.
ParseMembers(ts, i, acc) ==
    IF i + 3 > Len(ts) THEN Failed
    ELSE MemberAt(ts, i, acc, Scalar(ts[i]), Scalar(ts[i + 2]))

\* The value of property key: the last member of that name.
Lookup(members, key) ==
    members[CHOOSE i \in 1..Len(members) :
                /\ members[i].key = key
                /\ \A j \in (i + 1)..Len(members) : members[j].key # key].val

\* The object as a card of the model: the eight properties with values of
\* their kinds.  An object of another shape is one the model has no card for.
IsCard(members) ==
    /\ \A k \in 1..Len(KeyNames) : \E i \in 1..Len(members) : members[i].key = KeyNames[k]
    /\ \A i \in 1..Len(members) : \E k \in 1..Len(KeyNames) : members[i].key = KeyNames[k]
    /\ Lookup(members, "id").k = "string"
    /\ Lookup(members, "id").chars # <<>>
    /\ \A i \in 1..Len(Lookup(members, "id").chars) :
          IsDigit(Lookup(members, "id").chars[i])
    /\ Lookup(members, "question").k = "string"
    /\ Lookup(members, "answer").k = "string"
    /\ Lookup(members, "audioData").k \in {"string", "null"}
    /\ \A key \in {"interval", "repetitions", "nextReview"} :
          Lookup(members, key).k = "number" /\ Lookup(members, key).hun = 0
    /\ Lookup(members, "easeFactor").k = "number"
    /\ Lookup(members, "easeFactor").whole >= 0

ToCard(members) ==
    [id |-> DigitsValue(Lookup(members, "id").chars),
     question |-> Text(Lookup(members, "question").chars),
     answer |-> Text(Lookup(members, "answer").chars),
     audioData |-> IF Lookup(members, "audioData").k = "null" THEN NoAudio
                   ELSE Text(Lookup(members, "audioData").chars),
     interval |-> Lookup(members, "interval").whole,
     repetitions |-> Lookup(members, "repetitions").whole,
     easeFactor |-> 100 * Lookup(members, "easeFactor").whole
                        + Lookup(members, "easeFactor").hun,
     nextReview |-> Lookup(members, "nextReview").whole]

RECURSIVE ParseElements(_, _, _)

\* The element whose members are o, then the closing bracket or a comma and
\* the elements that follow.
ElementAt(ts, acc, o) ==
    IF ~o.ok \/ o.next > Len(ts) \/ ~IsCard(o.members) THEN Failed
    ELSE IF ts[o.next] = Punct("]")
    THEN [ok |-> TRUE, next |-> o.next + 1,
          cards |-> Append(acc, ToCard(o.members)), members |-> <<>>]
    ELSE IF ts[o.next] = Punct(",")
    THEN ParseElements(ts, o.next + 1, Append(acc, ToCard(o.members)))
    ELSE Failed

\* The elements of an array from token i, which is to open an object, up to
\* the closing bracket.
ParseElements(ts, i, acc) ==
    IF i > Len(ts) \/ ts[i] # Punct("{") THEN Failed
    ELSE ElementAt(ts, acc, ParseMembers(ts, i + 1, <<>>))

Parsed(kind, cs) == [kind |-> kind, cards |-> cs]

\* An object is a JSON value that is not an array.
ParsedObject(ts, o) ==
    Parsed(IF o.ok /\ o.next = Len(ts) + 1 THEN "value" ELSE "error", <<>>)

ParsedArray(ts, r) ==
    IF r.ok /\ r.next = Len(ts) + 1 THEN Parsed("array", r.cards)
    ELSE Parsed("error", <<>>)

\* The value the tokens denote, or a SyntaxError.
ParseValue(ts) ==
    IF ts = <<>> THEN Parsed("error", <<>>)
    ELSE IF Len(ts) = 1
    THEN Parsed(IF Scalar(ts[1]).ok THEN "value" ELSE "error", <<>>)
    ELSE IF ts = <<Punct("{"), Punct("}")>> THEN Parsed("value", <<>>)
    ELSE IF ts = <<Punct("["), Punct("]")>> THEN Parsed("array", <<>>)
    ELSE IF ts[1] = Punct("{") THEN ParsedObject(ts, ParseMembers(ts, 2, <<>>))
    ELSE IF ts[1] = Punct("[") THEN ParsedArray(ts, ParseElements(ts, 2, <<>>))
    ELSE Parsed("error", <<>>)

\* JSON.parse(ev.target.result) as the import handler sees it: an array of
\* cards, another JSON value, or a SyntaxError.
JSONParse(text) == ParseValue(SelectSeq(text, LAMBDA k : k.t # "space"))

\* navExport click: the collection is downloaded as flashcards.json.
NavExport ==
    /\ exported' = JSONStringify(cards, heap)
    /\ last' = Plain("export")
    /\ Quiet
    /\ UNCHANGED <<heap, cards, currentCard, now, section, cardBoxHidden,
                   noDueHidden, revealHidden, stored, warned, nextId, ratings, streak, player,
                   editingCardId, load, saves, db, form>>

\* The cards are shifted by skipOneDay, then exported, changed in the card
\* list, and the file downloaded last is imported again.
TransferNext ==
    \/ NavAdd
    \/ \E ok \in Writes : SkipDay(ok)
    \/ \E id \in HeldIds : BeginEdit(id)
    \/ \E au \in DeckAudios, ok \in Writes :
          UpdateExistingCard(EditedQuestion, EditedAnswer, au, ok)
    \/ \E id \in HeldIds, ok \in Writes : DeleteCard(id, ok)
    \/ NavExport
    \/ \E payload \in {JSONParse(exported)}, ok \in Writes :
          exported # <<>> /\ ImportFile(payload, ok)

TransferSpec == DeckInit /\ [][TransferNext]_vars

\* ------------------------------------------------- loading the collection
\* loadCards() applied to what storage may hold when the page is loaded.
\* Storage is outside the application: localStorage is shared by every
\* script of the origin and can be blocked, and an IndexedDB request can
\* fail.

StoredCards == {StoredNew, StoredLater, ImportedLow}

\* The collections of at most MaxStored cards.
StoredSeqs == UNION {[1..n -> StoredCards] : n \in 0..MaxStored}

\* JSON.stringify of a collection given as the sequence of its cards.
TextOf(deck) == JSONStringify([i \in 1..Len(deck) |-> i], deck)

\* What a storage holds: `holds` is the card sequence it holds, empty when it
\* holds none or cannot be read as one.
Item(api, state, text, holds) ==
    [api |-> api, state |-> state, text |-> text, holds |-> holds]

\* localStorage: access is blocked (getItem throws), the key is absent, or it
\* holds a text: the JSON of a collection, a text cut short, the empty text,
\* or the JSON of a value that is not an array.
LocalStorageItems ==
    {Item("localStorage", "blocked", <<>>, <<>>),
     Item("localStorage", "absent", <<>>, <<>>)}
    \cup {Item("localStorage", "text", TextOf(d), d) : d \in StoredSeqs}
    \cup {Item("localStorage", "text",
               SubSeq(TextOf(<<StoredNew>>), 1, k), <<>>) :
            k \in 0..(Len(TextOf(<<StoredNew>>)) - 1)}
    \cup {Item("localStorage", "text", t, <<>>) :
            t \in {<<Punct("{"), Punct("}")>>, <<NullTok>>,
                   <<NumberTok(5, 0)>>, <<StringTok(<<"q">>)>>}}

\* True when the ids of the sequence grow strictly: the order of the keys of
\* the object store, whose key path is id.
InKeyOrder(deck) ==
    \A i \in 1..(Len(deck) - 1) : deck[i].id < deck[i + 1].id

\* IndexedDB: the API is missing, indexedDB.open fails, the getAll request
\* fails, or the store gives its records.
IndexedDBItems ==
    {Item("indexedDB", st, <<>>, <<>>) :
        st \in {"unsupported", "openError", "readError"}}
    \cup {Item("indexedDB", "ok", <<>>, d) :
            d \in {x \in StoredSeqs : InKeyOrder(x)}}

\* What a loadCards() call gives its caller: a value, or an exception (for
\* the async function, a rejected promise).
Returned(kind, cs) == [threw |-> FALSE, kind |-> kind, cards |-> cs]

Thrown == [threw |-> TRUE, kind |-> "none", cards |-> <<>>]

\* return JSON.parse(raw): a SyntaxError is caught, any value is returned.
returnParsed(p) ==
    IF p.kind = "error" THEN Returned("array", <<>>)
    ELSE Returned(p.kind, p.cards)

\* function loadCards() of the localStorage version.
loadCards(item) ==
    IF item.state = "blocked" THEN Returned("array", <<>>)
    ELSE IF item.state = "absent" \/ item.text = <<>> THEN Returned("array", <<>>)
    ELSE returnParsed(JSONParse(item.text))

\* async function loadCards() of the IndexedDB version: openDB() is awaited
\* inside the try, the promise of the getAll request is returned from it
\* without an await, so its rejection passes the catch by.
loadCardsAsync(item) ==
    IF item.state \in {"unsupported", "openError"} THEN Returned("array", <<>>)
    ELSE IF item.state = "readError" THEN Thrown
    ELSE Returned("array", item.holds)

LoadInit ==
    /\ heap = [r \in {} |-> NoCard]
    /\ cards = <<>>
    /\ currentCard = NULL
    /\ now = millisInDay
    /\ section = "study"
    /\ cardBoxHidden = TRUE
    /\ noDueHidden = TRUE
    /\ revealHidden = TRUE
    /\ stored = <<>>
    /\ warned = FALSE
    /\ nextId = 1
    /\ ratings = 0
    /\ streak = 0
    /\ player = NoPlayer
    /\ last = Plain("none")
    /\ editingCardId = NoId
    /\ alerts = <<>>
    /\ exported = <<>>
    /\ skipRun = NoRun(FALSE)
    /\ \E item \in LocalStorageItems \cup IndexedDBItems :
          load = [pc |-> "start", item |-> item, out |-> Returned("none", <<>>)]
    /\ saves = NoSaves(FALSE)
    /\ db = NoDb
    /\ form = NoForm

LoadFrame ==
    UNCHANGED <<heap, cards, currentCard, now, section, cardBoxHidden,
                noDueHidden, revealHidden, stored, warned, nextId, ratings, streak, player,
                last, editingCardId, alerts, exported, skipRun, saves, db, form>>

\* let cards = loadCards();
LoadCards ==
    /\ load.pc = "start"
    /\ load.item.api = "localStorage"
    /\ load' = [load EXCEPT !.pc = "done", !.out = loadCards(load.item)]
    /\ LoadFrame

\* cards = await loadCards();
LoadCardsAsync ==
    /\ load.pc = "start"
    /\ load.item.api = "indexedDB"
    /\ load' = [load EXCEPT !.pc = "done", !.out = loadCardsAsync(load.item)]
    /\ LoadFrame

LoadNext == LoadCards \/ LoadCardsAsync

LoadSpec == LoadInit /\ [][LoadNext]_vars

\* ------------------------------------------------ the asynchronous store
\* The IndexedDB version of the application: the same handlers, with
\* saveCards an async function that no handler awaits.  A call opens the
\* database, and when the open request has succeeded it starts a readwrite
\* transaction that clears the object store and puts the cards the array
\* holds by then.  The open requests for one database are answered in the
\* order they were made, and readwrite transactions on one object store run
\* in the order they were created.

IdbWarning == "Failed to save cards to your browser storage"

\* What the array of a call holds now.
Contents(e) ==
    IF e.live THEN Serialize(cards, heap)
    ELSE [i \in DOMAIN e.slots |->
             IF e.slots[i].ref # NULL THEN heap[e.slots[i].ref]
             ELSE e.slots[i].val]

\* store.put(card) takes the key from card.id; null is not a valid key and
\* put then throws a DataError.
ValidKey(card) == card.id # NoId

\* The cards put before the loop ends or a put throws.
RECURSIVE PutsOf(_)
PutsOf(cs) ==
    IF cs = <<>> THEN <<>>
    ELSE IF ~ValidKey(cs[1]) THEN <<>>
    ELSE <<cs[1]>> \o PutsOf(Tail(cs))

\* The object store after clear() and the puts: for every key the record
\* put last.
Written(puts) ==
    {puts[j] : j \in {i \in 1..Len(puts) :
                         \A k \in (i + 1)..Len(puts) : puts[k].id # puts[i].id}}

\* The catch of saveCards: the first failure of a session raises an alert.
WarnedOnce(d) == [d EXCEPT !.warned = TRUE]

CallEnded(d, failed, given) ==
    [d EXCEPT !.hist = [tick |-> ~d.hist.tick, failed |-> failed, given |-> given]]

IdbFrame ==
    UNCHANGED <<heap, cards, currentCard, now, section, cardBoxHidden,
                noDueHidden, revealHidden, stored, warned, nextId, ratings, streak, player,
                editingCardId, exported, skipRun, load, saves, form>>

\* The transaction of a call whose open request succeeded: store.clear(),
\* then store.put(card) for the cards of the array.  A put that throws ends
\* the executor and rejects the promise: the call ends in its catch, and
\* the transaction, which nothing aborts, stays with the requests made.
Started(e, given) ==
    [e EXCEPT !.stage = "tx", !.live = FALSE, !.slots = <<>>,
              !.puts = PutsOf(given), !.given = given,
              !.threw = Len(PutsOf(given)) < Len(given)]

\* The first call that waits for openDB().
Opening(d) ==
    CHOOSE i \in 1..Len(d.pending) :
        /\ d.pending[i].stage = "opening"
        /\ \A j \in 1..(i - 1) : d.pending[j].stage # "opening"

Without(q, i) == SubSeq(q, 1, i - 1) \o SubSeq(q, i + 1, Len(q))

\* request.onsuccess / request.onerror of indexedDB.open and the rest of
\* saveCards up to its second await.  The request waits for the open
\* request loadCards has made before it.
OpenDone(ok) ==
    /\ db.pc = "open"
    /\ load.pc # "opening"
    /\ \E i \in 1..Len(db.pending) : db.pending[i].stage = "opening"
    /\ \E i \in {Opening(db)}, e \in {Started(db.pending[Opening(db)],
                                             Contents(db.pending[Opening(db)]))} :
          /\ IF ok
             THEN db' = [(IF e.threw THEN WarnedOnce(db) ELSE db)
                            EXCEPT !.pending[i] = e]
             ELSE db' = [CallEnded(WarnedOnce(db), TRUE, e.given)
                            EXCEPT !.pending = Without(db.pending, i)]
          /\ alerts' = IF (~ok \/ e.threw) /\ ~db.warned THEN <<IdbWarning>>
                       ELSE <<>>
    /\ last' = Plain("openDone")
    /\ IdbFrame

\* tx.oncomplete / tx.onabort of the oldest transaction; it runs after the
\* readonly transaction of loadCards, which was created before it.
TxDone(ok) ==
    /\ db.pc = "open"
    /\ load.pc # "reading"
    /\ db.pending # <<>>
    /\ db.pending[1].stage = "tx"
    /\ \E e \in {db.pending[1]} :
          /\ db' = [CallEnded(IF ok \/ e.threw THEN db ELSE WarnedOnce(db),
                              e.threw \/ ~ok, e.given)
                       EXCEPT !.store = IF ok THEN Written(e.puts) ELSE db.store,
                              !.pending = Tail(db.pending)]
          /\ alerts' = IF ~ok /\ ~e.threw /\ ~db.warned THEN <<IdbWarning>>
                       ELSE <<>>
    /\ last' = Plain("txDone")
    /\ IdbFrame

\* The database when the page is loaded: store.getAll() gives the records
\* in the order of their keys.
IdbDecks == {<<>>, <<StoredNew, StoredLater>>}

ImportedTwice == [ImportedHigh EXCEPT !.id = ImportedLow.id]
ImportedKeyless == [ImportedHigh EXCEPT !.id = NoId]

\* The files imported here: arrays of cards, among them one with two cards
\* of one id and one with a card whose id is null.
IdbPayloads ==
    {[kind |-> "array", cards |-> <<>>],
     [kind |-> "array", cards |-> <<ImportedLow>>],
     [kind |-> "array", cards |-> <<ImportedLow, ImportedTwice>>],
     [kind |-> "array", cards |-> <<ImportedLow, ImportedKeyless>>]}

IdbInit == \E deck \in IdbDecks : Loaded(deck, FALSE, FALSE, <<>>, OpenDb(deck), NoForm)

IdbHandlers ==
    \/ NavAdd
    \/ \E q \in Questions, a \in Answers, au \in Audios :
          Len(cards) < MaxCards + 2 /\ CreateCard(q, a, au, TRUE)
    \/ \E id \in HeldIds : DeleteCard(id, TRUE)
    \/ \E p \in IdbPayloads : ImportFile(p, TRUE)

\* Every open request and every transaction succeeds.
IdbNext ==
    \/ IdbHandlers
    \/ OpenDone(TRUE)
    \/ TxDone(TRUE)

IdbSpec == IdbInit /\ [][IdbNext]_vars

\* Open requests and transactions may fail.
IdbFailNext ==
    \/ NavAdd
    \/ \E id \in HeldIds : DeleteCard(id, TRUE)
    \/ \E p \in IdbPayloads : ImportFile(p, TRUE)
    \/ \E ok \in BOOLEAN : OpenDone(ok)
    \/ \E ok \in BOOLEAN : TxDone(ok)

IdbFailSpec == IdbInit /\ [][IdbFailNext]_vars

\* ---------------------------------------------------- the page starting
\* The IndexedDB version starts with cards = [] and the study section
\* shown, and init() waits for loadCards(): first for openDB(), then for
\* store.getAll().  The handlers are attached by then, so the user can act
\* while the load is in flight; here the user acts only then.

\* The load in flight: found is what the object store holds.
Loading(deck) == [pc |-> "opening", found |-> deck]

StartInit ==
    /\ \E deck \in IdbDecks : /\ db = OpenDb(deck)
                              /\ load = Loading(deck)
    /\ heap = [r \in {} |-> NoCard]
    /\ cards = <<>>
    /\ currentCard = NULL
    /\ now = millisInDay
    /\ section = "study"
    /\ cardBoxHidden = TRUE
    /\ noDueHidden = TRUE
    /\ revealHidden = TRUE
    /\ stored = <<>>
    /\ warned = FALSE
    /\ nextId = 1
    /\ ratings = 0
    /\ streak = 0
    /\ player = NoPlayer
    /\ last = Plain("start")
    /\ editingCardId = NoId
    /\ alerts = <<>>
    /\ exported = <<>>
    /\ skipRun = NoRun(FALSE)
    /\ saves = NoSaves(FALSE)
    /\ form = NoForm

\* init() after `cards = await loadCards()` has given it the array got:
\* renderCardList(), startStudy() and the study section is shown.  The
\* saveCards calls in flight keep the array `cards` referred to before.
Started_init(got) ==
    LET n == Len(got)
        refs == FreshRefs(n, {currentCard} \ {NULL})
        h1 == [r \in DOMAIN heap \cup Range(refs) |->
                  IF \E i \in 1..n : refs[i] = r
                  THEN got[CHOOSE i \in 1..n : refs[i] = r]
                  ELSE heap[r]]
        r == showNextCard(refs, h1, currentCard, now)
    IN /\ cards' = r.cards
       /\ currentCard' = r.currentCard
       /\ heap' = Live(h1, r.cards, r.currentCard)
       /\ cardBoxHidden' = r.cardBoxHidden
       /\ noDueHidden' = r.noDueHidden
       /\ revealHidden' = r.revealHidden
       /\ section' = "study"
       /\ db' = Settled(db, "assigned", cards, heap, heap', currentCard)

StartFrame ==
    UNCHANGED <<now, stored, warned, nextId, ratings, streak, player, editingCardId,
                exported, saves, form>>

\* The open request of loadCards ends.  When it fails loadCards catches the
\* error and returns an empty array.
LoadOpened(ok) ==
    /\ load.pc = "opening"
    /\ IF ok
       THEN /\ load' = [load EXCEPT !.pc = "reading"]
            /\ last' = Plain("loadOpened")
            /\ UNCHANGED <<heap, cards, currentCard, section, cardBoxHidden,
                           noDueHidden, revealHidden, db>>
       ELSE /\ load' = [load EXCEPT !.pc = "done"]
            /\ last' = Plain("loaded")
            /\ Started_init(<<>>)
    /\ Quiet
    /\ StartFrame

\* The getAll request of loadCards ends.  When it fails the promise
\* loadCards returned is rejected and init() ends at its await.
LoadRead(ok) ==
    /\ load.pc = "reading"
    /\ load' = [load EXCEPT !.pc = "done"]
    /\ IF ok
       THEN /\ last' = Plain("loaded")
            /\ Started_init(load.found)
       ELSE /\ last' = Plain("loadFailed")
            /\ UNCHANGED <<heap, cards, currentCard, section, cardBoxHidden,
                           noDueHidden, revealHidden, db>>
    /\ Quiet
    /\ StartFrame

StartNext ==
    \/ load.pc # "done" /\ NavAdd
    \/ load.pc # "done" /\ NavStudy
    \/ \E q \in Questions, a \in Answers, au \in Audios :
          load.pc # "done" /\ CreateCard(q, a, au, TRUE)
    \/ \E id \in HeldIds : load.pc # "done" /\ DeleteCard(id, TRUE)
    \/ \E p \in {[kind |-> "array", cards |-> <<ImportedLow>>]} :
          load.pc # "done" /\ ImportFile(p, TRUE)
    \/ \E ok \in BOOLEAN : LoadOpened(ok)
    \/ \E ok \in BOOLEAN : LoadRead(ok)
    \/ OpenDone(TRUE)
    \/ TxDone(TRUE)

StartSpec == StartInit /\ [][StartNext]_vars

\* ------------------------------------------------------ the add section
\* The form of the add section and its AI buttons.  A click handler is an
\* async function: it runs up to its first await, and the outcome of every
\* call it awaits is a step of its own.  A button is disabled while its
\* handler waits, so every button has at most one handler waiting.  The
\* status lines next to the buttons are display only and are left out.
\* A handler is attached when the page has its button: index.html has
\* genSentenceBtn, genParagraphVoiceBtn and genParagraphTranslationBtn.

AiButtons ==
    {"generateAudioBtn", "genParagraphVoiceBtn", "genParagraphTranslationBtn",
     "genSentenceBtn", "genVoiceBtn"}

TypedPrompt == "p"
TypedQuestion == "q"
TypedAnswer == "a"
GeneratedSentence == "s"
Translation == "c"
GeneratedAudio == "tts"
FileAudio == "file"

\* The form when the page is loaded.  flow tells what the handler of a
\* button waits for, arrived which calls of Promise.all have given their
\* result, reading what a Save handler that reads the attached file has in
\* its constants, and ended how the AI handler that ended last has ended.
EmptyForm ==
    [pc |-> "form", prompt |-> "", question |-> "", answer |-> "",
     file |-> FALSE, generated |-> NoAudio, disabled |-> {},
     flow |-> [b \in AiButtons |-> "idle"], arrived |-> {},
     reading |-> <<>>, ended |-> "none"]

\* The input a handler reads first, and its alert when the input is empty.
TextRead(f, b) == IF b = "genSentenceBtn" THEN f.prompt ELSE f.question

EmptyAlert(b) ==
    CASE b = "generateAudioBtn" -> "Please type a question/sentence first."
      [] b = "genSentenceBtn" -> "Please type a prompt/topic first."
      [] b = "genVoiceBtn" -> "Please ensure the English sentence is filled."
      [] OTHER -> "Please type an English paragraph first."

\* The alert of a handler's catch; the handler of genSentenceBtn has none.
FailedAlert(b) ==
    CASE b = "generateAudioBtn" -> <<"Failed to generate audio.">>
      [] b = "genParagraphVoiceBtn" ->
            <<"Failed to generate voice. Please check your API key/quota.">>
      [] b = "genParagraphTranslationBtn" -> <<"Failed to generate translation.">>
      [] b = "genVoiceBtn" -> <<"Failed to generate voice/translation.">>
      [] OTHER -> <<>>

\* What the handler of b awaits first.
FirstCall(b) ==
    CASE b = "genSentenceBtn" -> "sentence"
      [] b = "genParagraphTranslationBtn" -> "translate"
      [] b = "genVoiceBtn" -> "both"
      [] OTHER -> "tts"

AiOp(call, ok) ==
    CASE call = "sentence" -> IF ok THEN "sentenceDone" ELSE "sentenceFailed"
      [] call = "translate" -> IF ok THEN "translateDone" ELSE "translateFailed"
      [] OTHER -> IF ok THEN "ttsDone" ELSE "ttsFailed"

AiOps ==
    {"aiClick", "sentenceDone", "sentenceFailed", "translateDone",
     "translateFailed", "ttsDone", "ttsFailed"}

\* What a step of an AI handler leaves in `last`: the button it belongs to.
AiStep(op, b) ==
    [op |-> op, fn |-> "none", quality |-> 0, isEasy |-> FALSE, ref |-> NULL,
     pre |-> NoCard, post |-> NoCard, button |-> b]

FormFrame ==
    UNCHANGED <<heap, cards, currentCard, now, section, cardBoxHidden,
                noDueHidden, revealHidden, stored, warned, nextId, ratings, streak, player,
                editingCardId, exported, skipRun, load, saves, db>>

\* The user types into the prompt, the question or the answer input.
TypeText(field, text) ==
    /\ form.pc = "form"
    /\ section = "add"
    /\ form[field] # text
    /\ form' = [form EXCEPT ![field] = text]
    /\ last' = Plain("type")
    /\ Quiet
    /\ FormFrame

\* The user chooses an audio file.
AttachFile ==
    /\ form.pc = "form"
    /\ section = "add"
    /\ ~form.file
    /\ form' = [form EXCEPT !.file = TRUE]
    /\ last' = Plain("attach")
    /\ Quiet
    /\ FormFrame

\* Click on an AI button: with an empty input the handler alerts and
\* returns, without an API key (key: one is stored or the user enters one)
\* it returns, and else it disables its button and waits for its first call.
AiClick(b, key) ==
    /\ form.pc = "form"
    /\ section = "add"
    /\ b \notin form.disabled
    /\ Cardinality(form.disabled) < MaxWaiting
    /\ form' = IF TextRead(form, b) # "" /\ key
               THEN [form EXCEPT !.disabled = @ \cup {b}, !.flow[b] = FirstCall(b)]
               ELSE form
    /\ alerts' = IF TextRead(form, b) = "" THEN <<EmptyAlert(b)>> ELSE <<>>
    /\ last' = AiStep("aiClick", b)
    /\ FormFrame

\* Mutant: the button stays disabled after a failure.
Finally_OnlyAfterSuccess(f, b, ok) ==
    [f EXCEPT !.disabled = IF ok THEN @ \ {b} ELSE @,
              !.flow[b] = "idle", !.arrived = IF b = "genVoiceBtn" THEN {} ELSE @,
              !.ended = IF ok THEN "succeeded" ELSE "failed"]

\* The finally block of a handler: its button is enabled again.  ok tells
\* whether the handler reached the end of its try block.
Finally(f, b, ok) ==
    [f EXCEPT !.disabled = @ \ {b},
              !.flow[b] = "idle", !.arrived = IF b = "genVoiceBtn" THEN {} ELSE @,
              !.ended = IF ok THEN "succeeded" ELSE "failed"]

\* generateTTS has given its result to a handler that awaits it alone.
VoiceReady(f) == [f EXCEPT !.generated = GeneratedAudio, !.file = FALSE]

\* The handler of b goes on after the call it awaited: call is the call
\* that ended and ok its outcome.
Resumed(f, b, call, ok) ==
    CASE b \in {"generateAudioBtn", "genParagraphVoiceBtn"} ->
            Finally(IF ok THEN VoiceReady(f) ELSE f, b, ok)
      [] b = "genParagraphTranslationBtn" ->
            Finally(IF ok THEN [f EXCEPT !.answer = Translation] ELSE f, b, ok)
      [] b = "genSentenceBtn" /\ call = "sentence" ->
            IF ok THEN [f EXCEPT !.question = GeneratedSentence,
                                 !.flow[b] = "translate"]
            ELSE Finally(f, b, FALSE)
      [] b = "genSentenceBtn" /\ call = "translate" ->
            IF ok THEN [f EXCEPT !.answer = Translation, !.flow[b] = "tts"]
            ELSE Finally(f, b, FALSE)
      [] b = "genSentenceBtn" /\ call = "tts" ->
            Finally(IF ok THEN [f EXCEPT !.generated = GeneratedAudio] ELSE f,
                    b, TRUE)
      [] OTHER ->
            IF ~ok THEN Finally(f, b, FALSE)
            ELSE IF f.arrived \cup {call} = {"tts", "translate"}
                 THEN Finally([VoiceReady(f) EXCEPT !.answer = Translation],
                              b, TRUE)
                 ELSE [f EXCEPT !.arrived = @ \cup {call}]

\* The calls the handler of b waits for.
Awaited(f, b) ==
    IF f.flow[b] = "idle" THEN {}
    ELSE IF f.flow[b] = "both" THEN {"tts", "translate"} \ f.arrived
    ELSE {f.flow[b]}

\* A call to the AI service ends: its promise is fulfilled (ok) or rejected
\* (an error response, a network error or the timeout).
AiDone(b, call, ok) ==
    /\ form.pc = "form"
    /\ call \in Awaited(form, b)
    /\ form' = Resumed(form, b, call, ok)
    /\ alerts' = IF form'.flow[b] = "idle" /\ form'.ended = "failed"
                 THEN FailedAlert(b) ELSE <<>>
    /\ last' = AiStep(AiOp(call, ok), b)
    /\ FormFrame

\* Click on Save while no card is being edited and no file is attached:
\* the generated audio, if any, is taken and createCard is called.
SaveCard(ok) ==
    /\ form.pc = "form"
    /\ form.question # "" /\ form.answer # ""
    /\ ~form.file
    /\ CreateCardFrom(form.question, form.answer, form.generated, ok,
                      [form EXCEPT !.generated = NoAudio])

\* Click on Save with a file attached: the handler waits for the
\* FileReader with the texts it has read.
SaveCardWithFile ==
    /\ form.pc = "form"
    /\ section = "add"
    /\ editingCardId = NoId
    /\ form.question # "" /\ form.answer # ""
    /\ form.file
    /\ form.reading = <<>>
    /\ form' = [form EXCEPT !.reading = <<[question |-> form.question,
                                          answer |-> form.answer]>>]
    /\ last' = Plain("saveClick")
    /\ Quiet
    /\ FormFrame

\* reader.onload: createCard is called with the data of the file.
FileRead(ok) ==
    /\ form.pc = "form"
    /\ form.reading # <<>>
    /\ CreateCardFrom(form.reading[1].question, form.reading[1].answer,
                      FileAudio, ok, [form EXCEPT !.reading = <<>>])

\* reader.onerror: the handler alerts and returns.
FileReadFailed ==
    /\ form.pc = "form"
    /\ form.reading # <<>>
    /\ form' = [form EXCEPT !.reading = <<>>]
    /\ alerts' = <<"Failed to read attached audio file.">>
    /\ last' = Plain("saveUnread")
    /\ FormFrame

FormInit == Loaded(<<>>, FALSE, FALSE, <<>>, NoDb, EmptyForm)

FormNext ==
    \/ NavAdd
    \/ TypeText("prompt", TypedPrompt)
    \/ TypeText("question", TypedQuestion)
    \/ TypeText("answer", TypedAnswer)
    \/ AttachFile
    \/ \E b \in AiButtons, key \in BOOLEAN : AiClick(b, key)
    \/ \E b \in AiButtons, call \in {"sentence", "translate", "tts"},
          ok \in BOOLEAN : AiDone(b, call, ok)
    \/ SaveCard(TRUE)
    \/ SaveCardWithFile
    \/ FileRead(TRUE)
    \/ FileReadFailed

FormSpec == FormInit /\ [][FormNext]_vars

\* =================================================================== claims

Rated        == last.fn # "none"
RatedGraded  == last.fn = "processRating"
RatedBinary  == last.fn = "processRatingBinary"

\* n is x rounded to the nearest integer, halves upwards, for x = p / 100.
IsRoundOf(n, p) == 200 * n - 100 <= 2 * p /\ 2 * p < 200 * n + 100

\* C1: after a rating by either function at time T, the card's nextReview is
\* exactly T + interval * 86400000 ms, interval being the updated interval.
C1_DueAtIsNowPlusInterval ==
    Rated => last.post.nextReview = now + last.post.interval * 86400000

C1_Witness ==
    /\ RatedGraded
    /\ last.post.interval = 6
    /\ last.pre.interval = 1
    /\ now = millisInDay + 1
    /\ last.post.nextReview = 7 * millisInDay + 1

\* C2: after any rating update, graded or binary, easeFactor >= 1.3.
C2_EaseAtLeastFloor == Rated => last.post.easeFactor >= 130

\* C3: after any binary rating update, easy or hard, easeFactor <= 2.5.
C3_BinaryEaseAtMostCeiling == RatedBinary => last.post.easeFactor <= 250

\* C4: a graded rating with quality < 3 leaves repetitions = 0 and
\* interval = 1, whatever the card's fields were.
C4_GradedFailResets ==
    (RatedGraded /\ last.quality < 3)
        => (last.post.repetitions = 0 /\ last.post.interval = 1)

C4_Witness ==
    /\ RatedGraded
    /\ last.quality = 2
    /\ last.pre.repetitions = 2
    /\ last.pre.interval = 6
    /\ last.post.repetitions = 0
    /\ last.post.interval = 1

\* C5: a binary "hard" leaves repetitions = 0, interval = 1 and
\* easeFactor = max(1.3, old easeFactor - 0.15), whatever the card's fields were.
C5_HardResets ==
    (RatedBinary /\ ~last.isEasy)
        => /\ last.post.repetitions = 0
           /\ last.post.interval = 1
           /\ last.post.easeFactor = IF last.pre.easeFactor - 15 >= 130
                                     THEN last.pre.easeFactor - 15 ELSE 130

C5_Witness ==
    /\ RatedBinary
    /\ ~last.isEasy
    /\ last.pre.repetitions = 2
    /\ last.pre.interval = 6
    /\ last.pre.easeFactor = 250
    /\ last.post.repetitions = 0
    /\ last.post.interval = 1
    /\ last.post.easeFactor = 235

\* C6: a graded rating with quality q in 3..5 sets interval to 1 when the old
\* repetitions is 0, to 6 when it is 1, otherwise to old interval * old
\* easeFactor rounded (halves upwards); repetitions grows by one; easeFactor
\* becomes max(1.3, old + 0.1 - (5-q)*(0.08 + (5-q)*0.02)).  A new card rated 5
\* becomes {interval 1, repetitions 1, easeFactor 2.6}; rated 5 again it gets
\* interval 6 and repetitions 2.
C6_GradedSuccess ==
    (RatedGraded /\ last.quality >= 3)
        => /\ last.pre.repetitions = 0 => last.post.interval = 1
           /\ last.pre.repetitions = 1 => last.post.interval = 6
           /\ last.pre.repetitions \notin {0, 1}
                => IsRoundOf(last.post.interval,
                             last.pre.interval * last.pre.easeFactor)
           /\ last.post.repetitions = last.pre.repetitions + 1
           /\ last.quality = 5 =>
                last.post.easeFactor = IF last.pre.easeFactor + 10 >= 130
                                       THEN last.pre.easeFactor + 10 ELSE 130
           /\ last.quality = 4 =>
                last.post.easeFactor = IF last.pre.easeFactor >= 130
                                       THEN last.pre.easeFactor ELSE 130
           /\ last.quality = 3 =>
                last.post.easeFactor = IF last.pre.easeFactor - 14 >= 130
                                       THEN last.pre.easeFactor - 14 ELSE 130
           /\ (last.quality = 5 /\ last.pre.repetitions = 0
                 /\ last.pre.interval = 0 /\ last.pre.easeFactor = 250)
                => (last.post.interval = 1 /\ last.post.repetitions = 1
                      /\ last.post.easeFactor = 260)
           /\ (last.quality = 5 /\ last.pre.repetitions = 1
                 /\ last.pre.interval = 1 /\ last.pre.easeFactor = 260)
                => (last.post.interval = 6 /\ last.post.repetitions = 2)

C6_Witness ==
    /\ RatedGraded
    /\ last.quality = 5
    /\ last.pre.repetitions = 1
    /\ last.pre.interval = 1
    /\ last.pre.easeFactor = 260
    /\ last.post.interval = 6
    /\ last.post.repetitions = 2
    /\ ratings = 2

\* C7: a binary "easy" sets interval to 1 when the old repetitions is 0, to 3
\* when it is 1, otherwise to old interval * old easeFactor rounded;
\* repetitions grows by one; easeFactor becomes min(old + 0.05, 2.5).
\* {repetitions 2, interval 6, easeFactor 2.5} becomes
\* {interval 15, repetitions 3, easeFactor 2.5}.
C7_BinaryEasy ==
    (RatedBinary /\ last.isEasy)
        => /\ last.pre.repetitions = 0 => last.post.interval = 1
           /\ last.pre.repetitions = 1 => last.post.interval = 3
           /\ last.pre.repetitions \notin {0, 1}
                => IsRoundOf(last.post.interval,
                             last.pre.interval * last.pre.easeFactor)
           /\ last.post.repetitions = last.pre.repetitions + 1
           /\ last.post.easeFactor = IF last.pre.easeFactor + 5 <= 250
                                     THEN last.pre.easeFactor + 5 ELSE 250
           /\ (last.pre.repetitions = 2 /\ last.pre.interval = 6
                 /\ last.pre.easeFactor = 250)
                => (last.post.interval = 15 /\ last.post.repetitions = 3
                      /\ last.post.easeFactor = 250)

C7_Witness ==
    /\ RatedBinary
    /\ last.isEasy
    /\ last.pre.repetitions = 2
    /\ last.pre.interval = 6
    /\ last.pre.easeFactor = 250
    /\ last.post.interval = 15
    /\ last.post.repetitions = 3
    /\ last.post.easeFactor = 250

\* ------------------------------------------------- claims on the selection

\* The steps that end with showNextCard().
ShowOps == {"load", "navStudy", "rate", "skip"}

IsDue(r) == heap[r].nextReview <= now

DueRefs == {cards[i] : i \in {j \in 1..Len(cards) : IsDue(cards[j])}}

NoCardShown == ~noDueHidden /\ cardBoxHidden

\* C8: after a rating, after skipOneDay and on entering the study view, the
\* no-card state is presented iff no card has nextReview <= now; otherwise the
\* current card is a card of the collection with the smallest nextReview among
\* those with nextReview <= now (nextReview = now counts as due).
C8_SelectsEarliestDue ==
    last.op \in ShowOps
        => /\ NoCardShown <=> (DueRefs = {})
           /\ DueRefs # {}
                => /\ ~cardBoxHidden /\ noDueHidden
                   /\ currentCard \in DueRefs
                   /\ \A r \in DueRefs :
                         heap[currentCard].nextReview <= heap[r].nextReview

C8_Witness ==
    /\ last.op = "skip"
    /\ Len(cards) = 2
    /\ heap[cards[1]].nextReview = now
    /\ heap[cards[2]].nextReview < now
    /\ currentCard = cards[2]
    /\ ~cardBoxHidden

\* C9: when showNextCard finds no card with nextReview <= now there is no
\* current card: currentCard refers to no card.
C9_NoDueMeansNoCurrentCard ==
    (last.op \in ShowOps /\ DueRefs = {}) => currentCard = NULL

\* C10: among several due cards sharing the smallest nextReview the selection
\* picks the one that comes first in the collection, and the selection itself
\* changes neither the order nor the contents of the collection.
FirstEarliestDue(cs, h, t) ==
    LET due == {i \in 1..Len(cs) : h[cs[i]].nextReview <= t}
        best == {i \in due : \A j \in due : h[cs[i]].nextReview <= h[cs[j]].nextReview}
    IN cs[CHOOSE i \in best : \A j \in best : i <= j]

C10_TiesKeepCollectionOrder ==
    [][last'.op \in ShowOps
         => /\ (\E i \in 1..Len(cards') : heap'[cards'[i]].nextReview <= now')
                 => currentCard' = FirstEarliestDue(cards', heap', now')
            /\ cards' = cards
            /\ last'.op = "navStudy"
                 => \A r \in Range(cards) : heap'[r] = heap[r]]_vars

C10_Witness ==
    /\ last.op \in ShowOps
    /\ Len(cards) = 2
    /\ heap[cards[1]].nextReview = heap[cards[2]].nextReview
    /\ heap[cards[1]].nextReview <= now
    /\ currentCard = cards[1]
    /\ ~cardBoxHidden

\* ------------------------------------------- claims on the bulk time-shift

\* C11: each skipOneDay call lowers the nextReview of every card of the
\* collection by exactly 86400000 ms and leaves its interval, repetitions,
\* easeFactor, id, question, answer and audioData as they were; n calls in a
\* row lower every nextReview by exactly n days (two calls: two days).
C11_SkipShiftsEveryCardOneDay ==
    skipRun.n > 0
        => /\ last.op = "skip"
           /\ cards = skipRun.cards
           /\ \A r \in Range(cards) :
                 heap[r] = [skipRun.base[r] EXCEPT
                               !.nextReview = @ - skipRun.n * 86400000]

C11_Witness ==
    /\ skipRun.n = 2
    /\ Len(cards) = 1
    /\ skipRun.base[cards[1]] = StoredLater
    /\ heap[cards[1]].nextReview = 0
    /\ heap[cards[1]].interval = 3
    /\ heap[cards[1]].repetitions = 2
    /\ heap[cards[1]].easeFactor = 235

\* C12: skipOneDay never makes a due card not due: a card of the collection
\* with nextReview <= now before the call is in the collection with
\* nextReview <= now after it.
C12_SkipKeepsDueCardsDue ==
    [][last'.op = "skip"
         => \A r \in Range(cards) :
               heap[r].nextReview <= now
                   => (r \in Range(cards') /\ heap'[r].nextReview <= now')]_vars

\* After a skip: one card that was due before it and one that was not.
C12_Witness ==
    /\ last.op = "skip"
    /\ Len(cards) = 2
    /\ \E i, j \in 1..2 :
          /\ heap[cards[i]].nextReview + millisInDay <= now
          /\ heap[cards[j]].nextReview <= now
          /\ heap[cards[j]].nextReview + millisInDay > now

\* ------------------------------------------------ claims on the card list

\* C13: createCard appends exactly one card to the collection, with interval
\* 0, repetitions 0, easeFactor 2.5 and nextReview equal to the creation
\* time, so that it is due at once; the cards already held are unchanged.
C13_CreateAppendsNewDueCard ==
    [][last'.op = "create"
         => /\ last'.ref \notin Range(cards)
            /\ cards' = Append(cards, last'.ref)
            /\ \A r \in Range(cards) : heap'[r] = heap[r]
            /\ heap'[last'.ref].interval = 0
            /\ heap'[last'.ref].repetitions = 0
            /\ heap'[last'.ref].easeFactor = 250
            /\ heap'[last'.ref].nextReview = now'
            /\ last'.ref \in Range(DueCards(cards', heap', now'))]_vars

C13_Witness ==
    /\ last.op = "create"
    /\ Len(cards) = 3
    /\ heap[cards[1]] = StoredLater
    /\ heap[cards[2]] = StoredNew
    /\ cards[3] = last.ref
    /\ heap[cards[3]].nextReview = millisInDay
    /\ heap[cards[3]].interval = 0

\* C14: in every reachable state of a session every card of the in-memory
\* collection has easeFactor >= 1.3.
C14_EaseFloorInCollection ==
    \A i \in 1..Len(cards) : heap[cards[i]].easeFactor >= 130

\* C15: in every reachable state every card of the collection has
\* interval >= 0, and interval >= 1 whenever its repetitions >= 1.
C15_IntervalInvariant ==
    \A i \in 1..Len(cards) :
        /\ heap[cards[i]].interval >= 0
        /\ heap[cards[i]].repetitions >= 1 => heap[cards[i]].interval >= 1

SchedulingFields(c) == <<c.id, c.interval, c.repetitions, c.easeFactor, c.nextReview>>

\* C16: editing a card changes only its question, answer and audioData: its
\* id, interval, repetitions, easeFactor and nextReview and every other card
\* stay as they were; and no step other than a rating or a skipOneDay call
\* changes a scheduling field of a card object that exists before and after
\* it (an import makes new objects and keeps none).
C16_EditKeepsScheduling ==
    [][/\ last'.op = "update"
            => /\ cards' = cards
               /\ last'.ref \in Range(cards)
               /\ \A r \in Range(cards) \ {last'.ref} : heap'[r] = heap[r]
               /\ SchedulingFields(heap'[last'.ref])
                      = SchedulingFields(heap[last'.ref])
       /\ last'.op \notin {"import", "rate", "skip"}
            => \A r \in Range(cards) \cap Range(cards') :
                  SchedulingFields(heap'[r]) = SchedulingFields(heap[r])]_vars

C16_Witness ==
    /\ last.op = "update"
    /\ last.pre = StoredLater
    /\ last.post.question = EditedQuestion
    /\ last.post.answer = EditedAnswer
    /\ last.post.audioData = DataUri
    /\ heap[last.ref] = last.post
    /\ last.post.nextReview = 2 * millisInDay
    /\ last.post.interval = 3

C18_RejectedImportChangesNothing ==
    [][last'.op \in {"importValue", "importError"}
         => /\ cards' = cards
            /\ heap' = heap
            /\ stored' = stored
            /\ alerts' \in {<<"Invalid file">>, <<"Error parsing file">>}]_vars

C18_Witness ==
    /\ last.op = "importValue"
    /\ alerts = <<"Invalid file">>
    /\ Len(cards) = 2
    /\ heap[cards[1]] = StoredLater
    /\ stored = <<StoredLater, StoredNew>>

C20_ExportImportRoundTrip ==
    [][/\ last'.op = "export"
            => JSONParse(exported')
                   = [kind |-> "array", cards |-> Serialize(cards, heap)]
       /\ (last.op = "export"
             /\ last'.op \in {"import", "importValue", "importError"})
            => /\ last'.op = "import"
               /\ Serialize(cards', heap') = Serialize(cards, heap)]_vars

\* A file has been imported that holds a card without audio and with a
\* fractional easeFactor, and a card with audio, a negative nextReview and
\* texts with a quote and a backslash.
C20_Witness ==
    /\ last.op = "import"
    /\ exported = JSONStringify(cards, heap)
    /\ Len(cards) = 2
    /\ heap[cards[1]] = [StoredLater EXCEPT !.nextReview = millisInDay]
    /\ heap[cards[2]] = [StoredNew EXCEPT !.nextReview = -millisInDay,
                                          !.question = EditedQuestion,
                                          !.answer = EditedAnswer]

\* ------------------------------------------------ claims on the card store

\* C21: loadCards never throws and always returns a sequence of cards: the
\* stored cards when storage holds them, and an empty sequence when nothing
\* is stored, when storage is unavailable or when the stored value cannot be
\* read as a card sequence.
C21_LoadReturnsCards ==
    load.pc = "done"
        => /\ ~load.out.threw
           /\ load.out.kind = "array"
           /\ load.out.cards = load.item.holds

\* C22: a failed write is reported to the caller of saveCards: what the call
\* gives its caller after a failed write differs from what it gives after a
\* write that succeeded, so no failed write passes unseen by the caller.
C22_SaveReportsFailure == saves.okReturns \cap saves.failReturns = {}

\* C23: a failed saveCards leaves the in-memory collection as the handler
\* made it and storage as it was, the handler that called it runs to its
\* end (the card is added, removed, or the import reported), and over the
\* failed writes of a session the user is warned exactly once, at the first.
C23_FailedWritesDegradeToMemory ==
    [][saves'.tick # saves.tick
         => /\ saves'.warnings = (IF saves'.fails > 0 THEN 1 ELSE 0)
            /\ ~saves'.ok
                 => /\ stored' = stored
                    /\ Serialize(cards', heap') = saves'.given
                    /\ (StorageWarning \in Range(alerts')) <=> (saves.fails = 0)
                    /\ last'.op \in {"create", "delete", "import"}
                    /\ last'.op = "create"
                         => /\ Len(cards') = Len(cards) + 1
                            /\ heap'[cards'[Len(cards')]] = last'.post
                    /\ last'.op = "delete"
                         => /\ Len(cards') < Len(cards)
                            /\ \A r \in Range(cards') : heap'[r].id # last'.pre.id
                    /\ last'.op = "import"
                         => alerts'[Len(alerts')] = "Import successful!"]_vars

\* Two writes have failed, the second in a deleteCard call: one warning was
\* raised, the card is gone from the collection and still in storage.
C23_Witness ==
    /\ saves.fails = 2
    /\ saves.warnings = 1
    /\ ~saves.ok
    /\ last.op = "delete"
    /\ alerts = <<>>
    /\ \E i \in 1..Len(stored) : stored[i].id = last.pre.id
    /\ \A r \in Range(cards) : heap[r].id # last.pre.id

\* C24: saveCards calls are written in the order they were made: when no
\* write is pending any more, the object store holds exactly the cards the
\* collection held at the last saveCards call, also when `cards` was given
\* another array by an import or a deletion between the calls.
C24_WritesInCallOrder ==
    (db.pc = "open" /\ db.called /\ db.pending = <<>>)
        => db.store = Range(db.wanted)

\* C25: saveCards replaces the stored set as a whole: when a call has
\* ended, after a success the object store holds exactly the cards of the
\* collection it was given, and after a failure it holds what it held
\* before, never some of the cards only.
C25_SaveReplacesAtomically ==
    [][db'.hist.tick # db.hist.tick
          => IF db'.hist.failed THEN db'.store = db.store
             ELSE db'.store = Range(db'.hist.given)]_vars

\* A step of the handler of button b in which the call `call` has failed.
FailedIn(b, call) ==
    last'.op = AiOp(call, FALSE) /\ last'.button = b

\* C26: the three AI calls of a flow do not depend on each other.  In the
\* flow of genSentenceBtn a failed translation is followed by the attempt
\* to generate the voice, and a failed voice leaves the sentence and the
\* translation in the form; in the flow of genVoiceBtn the result of the
\* call that succeeded is applied when the other call fails.
C26_AiCallsIndependent ==
    [][/\ FailedIn("genSentenceBtn", "translate")
            => form'.flow["genSentenceBtn"] = "tts"
       /\ FailedIn("genSentenceBtn", "tts")
            => form'.question = form.question /\ form'.answer = form.answer
       /\ (FailedIn("genVoiceBtn", "tts") /\ "translate" \in form.arrived)
            => form'.answer = Translation
       /\ (FailedIn("genVoiceBtn", "translate") /\ "tts" \in form.arrived)
            => form'.generated = GeneratedAudio]_vars

\* A step of an AI handler; the handler has ended when its button waits
\* for nothing after the step.
AiActed == last'.op \in AiOps
AiEnded == AiActed /\ form'.flow[last'.button] = "idle"

\* The button of a handler that has ended is enabled, and no step of an AI
\* handler changes the collection, a card or what is stored.
AiLeavesCardsAlone ==
    /\ AiEnded => last'.button \notin form'.disabled
    /\ AiActed => cards' = cards /\ heap' = heap /\ stored' = stored

\* The question and the answer the Save handler that ends in the step has
\* read: the handler that waited for the file, or one that has no file.
SavedTexts ==
    IF form.reading # <<>> /\ form'.reading = <<>> THEN form.reading[1]
    ELSE [question |-> form.question, answer |-> form.answer]

\* The step appends a card with the texts of the form, new for the
\* scheduler, and writes the collection.
StoresTheCard ==
    /\ last'.op = "create"
    /\ cards' = Append(cards, last'.ref)
    /\ \A r \in Range(cards) : heap'[r] = heap[r]
    /\ last'.post = heap'[last'.ref]
    /\ SavedTexts.question # "" /\ SavedTexts.answer # ""
    /\ last'.post = NewCard(last'.post.id, SavedTexts.question,
                            SavedTexts.answer, last'.post.audioData, now)
    /\ stored' = Serialize(cards', heap')

UniqueIds(cs, h) ==
    \A i, j \in 1..Len(cs) : h[cs[i]].id = h[cs[j]].id => i = j

\* The cards that stay in the collection keep their ids; an import gives
\* the collection other cards.
IdsKept ==
    last'.op # "import"
        => \A r \in Range(cards) \cap Range(cards') : heap'[r].id = heap[r].id

\* C28: card ids are unique and immutable: after every step no two cards of
\* the collection have the same id, and no step changes the id of a card.
C28_IdsUniqueAndImmutable ==
    [][UniqueIds(cards', heap') /\ IdsKept]_vars

\* C29: the repetitions of a card that createCard made and only ratings
\* changed are the successful ratings (quality >= 3, or easy) since the last
\* failed one (quality < 3, or hard), or since the creation; never negative.
C29_RepetitionsCountSuccesses ==
    heap[1].repetitions = streak /\ heap[1].repetitions >= 0

C29_Witness ==
    /\ ratings = 3
    /\ streak = 2
    /\ RatedBinary
    /\ last.pre.repetitions = 1
    /\ heap[1].repetitions = 2
    /\ heap[1].interval = 3

\* A successful rating has just been applied.
RatedSuccess ==
    \/ RatedGraded /\ last.quality >= 3
    \/ RatedBinary /\ last.isEasy

\* C30 as stated: every successful rating of a card that createCard made
\* and only ratings changed gives an interval greater than the one the card
\* had before.
C30_SuccessGrowsInterval ==
    RatedSuccess => last.post.interval > last.pre.interval

\* C30, amended: a successful rating never gives a smaller interval, and it
\* gives a greater one unless it is the first after a failed rating: then
\* the interval of one day stays.
C30_SuccessNeverShrinksInterval ==
    RatedSuccess =>
        /\ last.post.interval >= last.pre.interval
        /\ \/ last.post.interval > last.pre.interval
           \/ /\ last.pre.repetitions = 0
              /\ last.pre.interval = 1
              /\ last.post.interval = 1
              /\ ratings >= 2

C30_Witness ==
    /\ RatedSuccess
    /\ ratings = 3
    /\ last.pre.repetitions = 2
    /\ last.pre.easeFactor = 222
    /\ last.pre.interval = 6
    /\ last.post.interval = 13

\* The rating applied in the step is one of a card of the collection, the
\* card the selection picks in the state the click was made in.
RatesSelectedCard ==
    /\ currentCard \in Range(cards)
    /\ heap[currentCard].nextReview <= now
    /\ currentCard = FirstEarliestDue(cards, heap, now)

\* C31: a rating that is applied updates a card of the collection, the one
\* the selection would pick at that moment, also when a card was deleted or
\* a file imported after the card was presented.
C31_RatingUpdatesMember ==
    [][last'.op = "rate" => RatesSelectedCard]_vars

\* The cards the collection holds before the step are in it after the step.
ChangesKept ==
    \A c \in Range(Serialize(cards, heap)) : c \in Range(Serialize(cards', heap'))

\* C32: what the user changes while the first load is in flight is not
\* lost: when the load ends the collection still holds the cards created
\* and imported by then, and once the load has ended and no write is
\* pending the object store still holds every card it held at the start
\* (the user deletes none of them here: they are not in the list yet).
C32_ChangesDuringLoadKept ==
    [][/\ last'.op = "loaded" => ChangesKept
       /\ (load'.pc = "done" /\ db'.pending = <<>>)
            => Range(load'.found) \subseteq db'.store]_vars

\* C33: with localStorage and every write succeeding, after each operation
\* (create, edit, delete, rating, skipOneDay, import; also the clicks that
\* change no card) the collection kept under the storage key is the
\* collection in memory, card by card and in the same order.
C33_StoredEqualsMemory ==
    stored = Serialize(cards, heap)

C33_Witness ==
    /\ last.op = "rate"
    /\ last.post # last.pre
    /\ last.post \in Range(stored)
    /\ Len(stored) = Len(cards)

\* The step leaves the collection array as it is and changes no field of a
\* card of the collection other than the current card.
OnlyCurrentCardChanged ==
    /\ cards' = cards
    /\ \A r \in Range(cards) \ {currentCard} : heap'[r] = heap[r]

\* C34: a rating changes the current card only; every other card of the
\* collection keeps all its fields, and the collection holds the same cards
\* in the same order.
C34_RatingChangesOnlyCurrentCard ==
    [][last'.op = "rate" => OnlyCurrentCardChanged]_vars

C34_Witness ==
    /\ last.op = "rate"
    /\ Len(cards) = 2
    /\ last.ref = cards[1]
    /\ heap[cards[1]] = last.post
    /\ last.post # last.pre
    /\ heap[cards[1]].nextReview > heap[cards[2]].nextReview

\* The cards that are due when the page is loaded: as many in each deck.
DueIn(deck) ==
    Cardinality({i \in 1..Len(deck) : deck[i].nextReview <= millisInDay})

DueAtLoad ==
    DueIn(CHOOSE d \in LoopDecks : \A e \in LoopDecks : DueIn(e) = DueIn(d))

\* C35: a rating leaves the rated card with nextReview at least one day
\* after the time of the rating; with the clock standing still and no
\* skipOneDay, create or import, each rating leaves one due card less, the
\* no-card state is shown exactly when the rating leaves no card due, and it
\* is shown after as many ratings as cards were due at the start.
C35_RatingsDrainDueCards ==
    [][last'.op = "rate"
         => /\ last'.post.nextReview >= now + millisInDay
            /\ Cardinality(DueRefs') = Cardinality(DueRefs) - 1
            /\ NoCardShown' <=> DueRefs' = {}
            /\ ratings' = DueAtLoad => NoCardShown']_vars

\* The Save click of the step has appended a card with the texts of the form
\* or has changed the card that was being edited.
SaveTookEffect ==
    \/ /\ last'.op = "create"
       /\ Len(cards') = Len(cards) + 1
       /\ heap'[cards'[Len(cards')]] = last'.post
    \/ /\ last'.op = "update"
       /\ cards' = cards
       /\ last'.ref \in Range(cards)
       /\ heap'[last'.ref] = last'.post

\* C36: a Save click with a non-empty question and answer appends a card or
\* updates a card, and leaves the form out of edit mode, also when the card
\* being edited was deleted or replaced by an import after editing began.
C36_SaveTakesEffect ==
    [][last'.op \in {"create", "update", "updateNone"}
         => SaveTookEffect /\ editingCardId' = NoId]_vars

\* C37: generated audio is not carried over from one card to a later one:
\* after a Save that stores a card generatedAudioData is null.
C37_GeneratedAudioNotCarriedOver ==
    [][last'.op = "create" => form'.generated = NoAudio]_vars

\* C38: a failed graded rating (quality < 3) leaves easeFactor as it was;
\* repetitions, interval and nextReview are the only fields it may change.
C38_FailedGradedKeepsEase ==
    (RatedGraded /\ last.quality < 3)
        => /\ last.post.easeFactor = last.pre.easeFactor
           /\ \A f \in DOMAIN last.pre \ {"repetitions", "interval", "nextReview"} :
                 last.post[f] = last.pre[f]

C38_Witness ==
    /\ RatedGraded
    /\ last.quality = 2
    /\ last.pre.easeFactor = 270
    /\ last.post.easeFactor = 270
    /\ last.pre.repetitions = 2
    /\ last.post.repetitions = 0
    /\ last.post.nextReview > last.pre.nextReview

\* The handlers that call stopAudio: navAdd, and showNextCard on entering
\* the study view and after a rating.
StopOps == {"navAdd", "navStudy", "rate"}

\* C39: at most one replay timer is pending at any time; after stopAudio
\* none is pending; and no timer starts the audio again after a stop.
C39_OneReplayTimer ==
    [][/\ Len(player'.timers) <= 1
       /\ last'.op \in StopOps => player'.timers = <<>>
       /\ last'.op = "replay" => ~player.stopped]_vars

====
